---- MODULE Spec2Model ----
(***************************************************************************)
(* Weekly 5-minute planner (src/src/App.tsx): the time grid, the paint     *)
(* engine, the aggregation (stripe) engine, the allocation summary and the *)
(* pointer-driven reorder engine of the activity list.                     *)
(*                                                                         *)
(* Every React event handler is one atomic action: handlers run to         *)
(* completion and the component re-renders before the next event, so each  *)
(* handler reads the state left by the previous one.                       *)
(*                                                                         *)
(* Indices kept in the state (startIndex, insertIndex, rows, days) are the *)
(* 0-based indices of the source; sequences are 1-based, so element i of   *)
(* the source is s[i + 1] here.                                            *)
(***************************************************************************)
EXTENDS Integers, Sequences, FiniteSets, TLC

VARIABLES
    plans,          \* useState<Plan[]>: the ordered list of plans
    activePlanId,   \* useState<string | null>
    timeScale,      \* useState<"5" | "15" | "60">
    isMouseDown,    \* isMouseDownRef.current
    dragPaintMode,  \* dragPaintModeRef.current
    lastPaint,      \* lastPaintRef.current, {day, row}
    reorderDrag,    \* useState<null | {...}>: <<>> is null, <<r>> is the record r
    pointersDown,   \* environment: the pointers whose button is currently held
    nextUid,        \* environment: how many ids uid() has handed out
    jsonStatus,     \* useState: the outcome reported by the last import
    lastWrite,      \* history: the arguments of the last applyRange call, <<>> if none
    strokePath,     \* history: the (day, row) cells named by the calls of the current stroke, in order
    strokeWrites,   \* history: how many applyRange calls the current stroke made
    lastOp,         \* history: the handler that ran last, with the id it was given
    steps           \* history: number of handler runs so far (bounds the exploration)

vars == <<plans, activePlanId, timeScale, isMouseDown, dragPaintMode, lastPaint,
          reorderDrag, pointersDown, nextUid, jsonStatus, lastWrite, strokePath,
          strokeWrites, lastOp, steps>>

(***************************************************************************)
(* Bounds of the model.  The grid of the program is 7 x 288; the model     *)
(* keeps the shape (days x slots, slots a multiple of every granularity)   *)
(* on a smaller scale.                                                     *)
(***************************************************************************)
NumDays == 2
NumSlots == 12
MaxUid == 2

NULL == "null"

Days == 0 .. (NumDays - 1)
Slots == 0 .. (NumSlots - 1)
Pointers == {1, 2}

Min(a, b) == IF a < b THEN a ELSE b
Max(a, b) == IF a > b THEN a ELSE b

(***************************************************************************)
(* Array helpers (JavaScript semantics, 0-based arguments).                *)
(***************************************************************************)
\* list.findIndex(x => x.id === id): the first index, or -1
FindIndex(list, id) ==
    IF \E i \in 1 .. Len(list) : list[i].id = id
    THEN (CHOOSE i \in 1 .. Len(list) :
              /\ list[i].id = id
              /\ \A j \in 1 .. (i - 1) : list[j].id # id) - 1
    ELSE -1

\* list.filter(x => x.id !== id)
FilterOutId(list, id) == SelectSeq(list, LAMBDA a : a.id # id)

\* list.map(a => a.id)
IdsOf(list) == [i \in 1 .. Len(list) |-> list[i].id]

IdSet(list) == {list[i].id : i \in 1 .. Len(list)}

\* next.splice(i, 1): the list without its element at index i
SpliceOut(list, i) ==
    [k \in 1 .. (Len(list) - 1) |-> IF k <= i THEN list[k] ELSE list[k + 1]]

\* next.splice(i, 0, item): item inserted so that it sits at index i
\* (splice clamps a start beyond the end to the length)
SpliceIn(list, i, item) ==
    LET at == Min(i, Len(list))
    IN  [k \in 1 .. (Len(list) + 1) |->
            IF k <= at THEN list[k]
            ELSE IF k = at + 1 THEN item
            ELSE list[k - 1]]

(***************************************************************************)
(* buildEmptyWeek, makeDefaultPlan, uid                                    *)
(***************************************************************************)
buildEmptyWeek == [d \in Days |-> [r \in Slots |-> NULL]]

DefaultActivities ==
    << [id |-> "a_work",   name |-> "Work",   colour |-> "#E11D48", icon |-> "briefcase"],
       [id |-> "a_family", name |-> "Family", colour |-> "#0EA5E9", icon |-> "users"],
       [id |-> "a_sleep",  name |-> "Sleep",  colour |-> "#64748B", icon |-> "bed"],
       [id |-> "a_admin",  name |-> "Admin",  colour |-> "#22C55E", icon |-> "laptop"] >>

\* uid(): a fresh opaque string; the n-th call returns the n-th name
uid(n) == "u" \o ToString(n)

makeDefaultPlan(n, name) ==
    [id |-> "p_" \o uid(n),
     name |-> name,
     activities |-> DefaultActivities,
     grid |-> buildEmptyWeek,
     selectedActivityId |-> "a_work",
     tool |-> "paint"]

(***************************************************************************)
(* activePlan, viewStep, updateActivePlan                                  *)
(***************************************************************************)
PlanIndex(ps, id) == FindIndex(ps, id)

\* plans.find(p => p.id === activePlanId) ?? plans[0]
activePlan ==
    IF PlanIndex(plans, activePlanId) >= 0
    THEN plans[PlanIndex(plans, activePlanId) + 1]
    ELSE plans[1]

\* viewStep with the quarter-hour scale taken for the 5-minute scale
viewStep_quarterAsFive == IF timeScale = "60" THEN 12 ELSE 1

viewStep == IF timeScale = "5" THEN 1 ELSE IF timeScale = "15" THEN 3 ELSE 12

\* {...current, ...patch}
Patched(current, patch) ==
    [f \in DOMAIN current |-> IF f \in DOMAIN patch THEN patch[f] ELSE current[f]]

\* setPlans(prev => ... next[idx] = {...current, ...patch}): the plans with the
\* fields of patch replaced in the active plan.  An updater (p) => patch is
\* given the plan at idx, which is the active plan the caller computes it from.
\* updateActivePlan that patches the first plan of the list
updateActivePlan_firstPlan(ps, patch) == [ps EXCEPT ![1] = Patched(ps[1], patch)]

updateActivePlan(ps, patch) ==
    LET idx == PlanIndex(ps, activePlan.id)
    IN  IF idx < 0 THEN ps
        ELSE [ps EXCEPT ![idx + 1] = Patched(ps[idx + 1], patch)]

(***************************************************************************)
(* reorderByIndex                                                          *)
(***************************************************************************)
\* reorderByIndex that takes the entry out and does not put it back
reorderByIndex_removeOnly(list, fromIndex, toIndex) ==
    IF fromIndex < 0 \/ fromIndex >= Len(list) THEN list ELSE SpliceOut(list, fromIndex)

\* reorderByIndex that inserts the item without removing it first
reorderByIndex_insertOnly(list, fromIndex, toIndex) ==
    IF fromIndex < 0 \/ fromIndex >= Len(list) \/ fromIndex = toIndex THEN list
    ELSE SpliceIn(list, toIndex, list[fromIndex + 1])

\* reorderByIndex that exchanges the two entries
reorderByIndex_exchange(list, fromIndex, toIndex) ==
    IF fromIndex < 0 \/ fromIndex >= Len(list) \/ toIndex < 0 \/ toIndex >= Len(list)
    THEN list
    ELSE [list EXCEPT ![fromIndex + 1] = list[toIndex + 1],
                      ![toIndex + 1] = list[fromIndex + 1]]

reorderByIndex(list, fromIndex, toIndex) ==
    LET n == Len(list)
        to == IF toIndex < 0 THEN 0 ELSE IF toIndex >= n THEN n - 1 ELSE toIndex
    IN  IF fromIndex < 0 \/ fromIndex >= n THEN list
        ELSE IF fromIndex = to THEN list
        ELSE SpliceIn(SpliceOut(list, fromIndex), to, list[fromIndex + 1])

(***************************************************************************)
(* Reorder engine                                                          *)
(***************************************************************************)
NoDrag == <<>>
Dragging == reorderDrag # NoDrag
drag == reorderDrag[1]

\* The rows of the activity list are laid out top to bottom in registry order
\* (the dragged row stays in place, dimmed); in units of half a row height the
\* row at index i spans [2i, 2i + 2) and r.top + r.height / 2 is 2i + 1.
RowMidY(activities, id) == 2 * FindIndex(activities, id) + 1

\* the pointer's clientY over the list, from its top edge to its bottom edge
PointerYs == 0 .. (2 * Len(activePlan.activities))

\* computeInsertIndex that does not take the dragged item out
computeInsertIndex_countsDragged(clientY, draggedId) ==
    LET ordered == IdsOf(activePlan.activities)
        below == {k \in 1 .. Len(ordered) :
                      clientY < RowMidY(activePlan.activities, ordered[k])}
    IN  IF below = {}
        THEN [insertIndex |-> Len(ordered), indicatorId |-> ordered[Len(ordered)],
              indicatorPos |-> "below"]
        ELSE LET k == CHOOSE k \in below : \A j \in below : k <= j
             IN  [insertIndex |-> k - 1, indicatorId |-> ordered[k],
                  indicatorPos |-> "above"]

computeInsertIndex(clientY, draggedId) ==
    LET ordered == IdsOf(activePlan.activities)
        orderedWithout == SelectSeq(ordered, LAMBDA id : id # draggedId)
        below == {k \in 1 .. Len(orderedWithout) :
                      clientY < RowMidY(activePlan.activities, orderedWithout[k])}
    IN  IF below = {}
        THEN [insertIndex |-> Len(orderedWithout),
              indicatorId |-> IF Len(orderedWithout) > 0
                              THEN orderedWithout[Len(orderedWithout)] ELSE NULL,
              indicatorPos |-> "below"]
        ELSE LET k == CHOOSE k \in below : \A j \in below : k <= j
             IN  [insertIndex |-> k - 1,
                  indicatorId |-> orderedWithout[k],
                  indicatorPos |-> "above"]

\* startReorder, as the pointerdown handler of the drag handle of activityId
startReorder(pointerId, button, activityId) ==
    /\ pointerId \notin pointersDown
    /\ activityId \in IdSet(activePlan.activities)
    /\ pointersDown' = pointersDown \cup {pointerId}
    /\ IF button # 0
       THEN reorderDrag' = reorderDrag
       ELSE LET startIndex == FindIndex(activePlan.activities, activityId)
            IN  reorderDrag' = << [id |-> activityId,
                                   pointerId |-> pointerId,
                                   startIndex |-> startIndex,
                                   insertIndex |-> startIndex,
                                   indicatorId |-> activityId,
                                   indicatorPos |-> "above"] >>
    /\ UNCHANGED <<plans, activePlanId, timeScale, isMouseDown, dragPaintMode,
                   lastPaint, nextUid, jsonStatus, lastWrite, strokePath, strokeWrites>>

\* onMove without the test of the pointer id of line 736
onMove_anyPointer(pointerId, clientY) ==
    /\ Dragging
    /\ LET c == computeInsertIndex(clientY, drag.id)
       IN  reorderDrag' = << [drag EXCEPT !.insertIndex = c.insertIndex,
                                          !.indicatorId = c.indicatorId,
                                          !.indicatorPos = c.indicatorPos] >>
    /\ UNCHANGED <<plans, activePlanId, timeScale, isMouseDown, dragPaintMode,
                   lastPaint, pointersDown, nextUid, jsonStatus, lastWrite, strokePath,
                   strokeWrites>>

\* onMove: window pointermove while a drag is active
onMove(pointerId, clientY) ==
    /\ Dragging
    /\ IF pointerId # drag.pointerId
       THEN reorderDrag' = reorderDrag
       ELSE LET c == computeInsertIndex(clientY, drag.id)
            IN  reorderDrag' = << [drag EXCEPT !.insertIndex = c.insertIndex,
                                               !.indicatorId = c.indicatorId,
                                               !.indicatorPos = c.indicatorPos] >>
    /\ UNCHANGED <<plans, activePlanId, timeScale, isMouseDown, dragPaintMode,
                   lastPaint, pointersDown, nextUid, jsonStatus, lastWrite, strokePath,
                   strokeWrites>>

\* ResolveToIndex that takes the insertion index as the final index
ResolveToIndex_inWithout(activities, draggedId, insertIndex) ==
    Max(0, Min(Len(activities) - 1, insertIndex))

\* onUp, lines 756-769: the final index in the order that still holds the
\* dragged item
ResolveToIndex(activities, draggedId, insertIndex) ==
    LET fromIndex == FindIndex(activities, draggedId)
        without == FilterOutId(activities, draggedId)
        clamped == Max(0, Min(Len(without), insertIndex))
    IN  IF fromIndex < 0 THEN insertIndex
        ELSE IF clamped >= Len(without) THEN Len(activities) - 1
        ELSE FindIndex(activities, without[clamped + 1].id)

\* the events onUp is registered for, lines 779-780
ReleaseEvents == {"pointerup", "pointercancel"}

\* onUp that returns before setReorderDrag(null) when the dragged activity
\* is not in the registry
onUp_staysWhenGone(pointerId) ==
    /\ pointerId \in pointersDown
    /\ pointersDown' = pointersDown \ {pointerId}
    /\ IF ~Dragging \/ pointerId # drag.pointerId
       THEN UNCHANGED <<reorderDrag, plans>>
       ELSE LET fromIndex == FindIndex(activePlan.activities, drag.id)
                toIndex == ResolveToIndex(activePlan.activities, drag.id, drag.insertIndex)
                moved == [activities |->
                             reorderByIndex(activePlan.activities, fromIndex, toIndex)]
            IN  IF fromIndex < 0 THEN UNCHANGED <<reorderDrag, plans>>
                ELSE /\ reorderDrag' = NoDrag
                     /\ IF toIndex >= 0 /\ fromIndex # toIndex
                        THEN plans' = updateActivePlan(plans, moved)
                        ELSE plans' = plans
    /\ UNCHANGED <<activePlanId, timeScale, isMouseDown, dragPaintMode,
                   lastPaint, nextUid, jsonStatus, lastWrite, strokePath, strokeWrites>>

\* onUp that also selects the activity it moved
onUp_selectsDragged(pointerId) ==
    /\ pointerId \in pointersDown
    /\ pointersDown' = pointersDown \ {pointerId}
    /\ IF ~Dragging \/ pointerId # drag.pointerId
       THEN UNCHANGED <<reorderDrag, plans>>
       ELSE LET fromIndex == FindIndex(activePlan.activities, drag.id)
                toIndex == ResolveToIndex(activePlan.activities, drag.id, drag.insertIndex)
                moved == [activities |->
                             reorderByIndex(activePlan.activities, fromIndex, toIndex),
                          selectedActivityId |-> drag.id]
            IN  /\ reorderDrag' = NoDrag
                /\ IF fromIndex >= 0 /\ toIndex >= 0 /\ fromIndex # toIndex
                   THEN plans' = updateActivePlan(plans, moved)
                   ELSE plans' = plans
    /\ UNCHANGED <<activePlanId, timeScale, isMouseDown, dragPaintMode,
                   lastPaint, nextUid, jsonStatus, lastWrite, strokePath, strokeWrites>>

\* onUp: window pointerup and pointercancel share this listener; the listeners
\* exist only while a drag is active
onUp(pointerId) ==
    /\ pointerId \in pointersDown
    /\ pointersDown' = pointersDown \ {pointerId}
    /\ IF ~Dragging \/ pointerId # drag.pointerId
       THEN UNCHANGED <<reorderDrag, plans>>
       ELSE LET fromIndex == FindIndex(activePlan.activities, drag.id)
                toIndex == ResolveToIndex(activePlan.activities, drag.id, drag.insertIndex)
                moved == [activities |->
                             reorderByIndex(activePlan.activities, fromIndex, toIndex)]
            IN  /\ reorderDrag' = NoDrag
                /\ IF fromIndex >= 0 /\ toIndex >= 0 /\ fromIndex # toIndex
                   THEN plans' = updateActivePlan(plans, moved)
                   ELSE plans' = plans
    /\ UNCHANGED <<activePlanId, timeScale, isMouseDown, dragPaintMode,
                   lastPaint, nextUid, jsonStatus, lastWrite, strokePath, strokeWrites>>

(***************************************************************************)
(* Time grid: applyRange, clearGridForActivity                             *)
(***************************************************************************)
\* writeRange with the end of the range not clamped to the column and included
writeRange_inclusiveEnd(grid, dayIndex, startRow, len, v) ==
    [grid EXCEPT ![dayIndex] =
        [r \in DOMAIN @ |-> IF r >= startRow /\ r <= startRow + len THEN v ELSE @[r]]]

\* applyRange, lines 441-444: the copy of grid with the rows
\* [startRow, min(slots, startRow + len)) of column dayIndex set to v
writeRange(grid, dayIndex, startRow, len, v) ==
    LET end == Min(NumSlots, startRow + len)
    IN  [grid EXCEPT ![dayIndex] =
            [r \in DOMAIN @ |-> IF r >= startRow /\ r < end THEN v ELSE @[r]]]

\* applyRange that also stores the mode of the write as the plan's tool
applyRange_storesTool(ps, dayIndex, startRow, len, activityIdOrNull) ==
    updateActivePlan(ps,
        [grid |-> writeRange(activePlan.grid, dayIndex, startRow, len, activityIdOrNull),
         tool |-> IF activityIdOrNull = NULL THEN "erase" ELSE "paint"])

applyRange(ps, dayIndex, startRow, len, activityIdOrNull) ==
    updateActivePlan(ps,
        [grid |-> writeRange(activePlan.grid, dayIndex, startRow, len, activityIdOrNull)])

\* clearGridForActivity that frees every cell once the id occurs
clearGridForActivity_clearsAll(grid, activityId) ==
    [d \in DOMAIN grid |->
        [r \in DOMAIN grid[d] |->
            IF \E e \in DOMAIN grid : \E q \in DOMAIN grid[e] : grid[e][q] = activityId
            THEN NULL ELSE grid[d][r]]]

\* clearGridForActivity that clears the first day only
clearGridForActivity_firstDayOnly(grid, activityId) ==
    [d \in DOMAIN grid |->
        [r \in DOMAIN grid[d] |->
            IF d = 0 /\ grid[d][r] = activityId THEN NULL ELSE grid[d][r]]]

\* clearGridForActivity, lines 161-163
clearGridForActivity(grid, activityId) ==
    [d \in DOMAIN grid |->
        [r \in DOMAIN grid[d] |-> IF grid[d][r] = activityId THEN NULL ELSE grid[d][r]]]

\* !v for a cell value: null and the empty string are falsy
IsFalsy(v) == v = NULL \/ v = ""

\* activePlan.grid?.[day] ?? [] read at row: col[row] ?? null
CellAt(grid, day, row) ==
    IF day \in DOMAIN grid THEN
        IF row \in DOMAIN grid[day] THEN grid[day][row] ELSE NULL
    ELSE NULL

(***************************************************************************)
(* Allocation summary                                                      *)
(***************************************************************************)
\* CellCount that scans the first day only
CellCount_firstDay(grid, id) ==
    Cardinality({r \in Slots : ~IsFalsy(CellAt(grid, 0, r)) /\ CellAt(grid, 0, r) = id})

\* counts.get(id) ?? 0 after the scan of day < days, row < slots
CellCount(grid, id) ==
    Cardinality({c \in Days \X Slots :
                    /\ ~IsFalsy(CellAt(grid, c[1], c[2]))
                    /\ CellAt(grid, c[1], c[2]) = id})

FreeCells(grid) ==
    Cardinality({c \in Days \X Slots : IsFalsy(CellAt(grid, c[1], c[2]))})

allocationSummary ==
    [minutesById |-> [id \in IdSet(activePlan.activities) |->
                          CellCount(activePlan.grid, id) * 5],
     freeMinutes |-> FreeCells(activePlan.grid) * 5,
     totalMinutes |-> NumDays * NumSlots * 5]

(***************************************************************************)
(* Aggregation engine: getStripeBackground                                 *)
(***************************************************************************)
\* grid[day].slice(startRow, startRow + g)
BlockIds(grid, dayIndex, startRow, g) ==
    [i \in 1 .. Max(0, Min(g, NumSlots - startRow)) |-> grid[dayIndex][startRow + i - 1]]

SeqRange(q) == {q[i] : i \in 1 .. Len(q)}

\* the keys of the counts Map in insertion order: the distinct non-free ids of
\* the block by first occurrence
RECURSIVE CountKeys(_)
CountKeys(ids) ==
    IF ids = <<>> THEN <<>>
    ELSE LET front == CountKeys(SubSeq(ids, 1, Len(ids) - 1))
             id == ids[Len(ids)]
         IN  IF IsFalsy(id) \/ id \in SeqRange(front) THEN front ELSE Append(front, id)

Occurrences(ids, id) == Cardinality({i \in 1 .. Len(ids) : ids[i] = id})

FreeCount(ids) == Cardinality({i \in 1 .. Len(ids) : IsFalsy(ids[i])})

\* ActivityById that answers the first activity of the registry for an id the
\* registry does not hold
ActivityById_defaultsToFirst(activities, id) ==
    LET hits == {i \in 1 .. Len(activities) : activities[i].id = id}
    IN  IF hits = {} THEN (IF activities = <<>> THEN <<>> ELSE << activities[1] >>)
        ELSE << activities[CHOOSE i \in hits : \A j \in hits : j <= i] >>

\* activityById.get(id): <<a>> for the activity a, <<>> when absent (on
\* repeated ids the Map keeps the last one set)
ActivityById(activities, id) ==
    LET hits == {i \in 1 .. Len(activities) : activities[i].id = id}
    IN  IF hits = {} THEN <<>>
        ELSE << activities[CHOOSE i \in hits : \A j \in hits : j <= i] >>

\* Segments with the free segment pushed before the activity segments
Segments_freeFirst(ids, activities) ==
    LET keys == CountKeys(ids)
        seg(id) == LET a == ActivityById(activities, id)
                   IN  [key |-> id,
                        colour |-> IF a = <<>> THEN "#A3A3A3" ELSE a[1].colour,
                        n |-> Occurrences(ids, id),
                        label |-> IF a = <<>> THEN "Unknown" ELSE a[1].name]
        acts == [i \in 1 .. Len(keys) |-> seg(keys[i])]
    IN  IF FreeCount(ids) > 0
        THEN << [key |-> "__free__", colour |-> "rgba(255,255,255,0.06)",
                 n |-> FreeCount(ids), label |-> "Free"] >> \o acts
        ELSE acts

\* Segments without the push of the free segment of line 501
Segments_withoutFree(ids, activities) ==
    LET keys == CountKeys(ids)
        seg(id) == LET a == ActivityById(activities, id)
                   IN  [key |-> id,
                        colour |-> IF a = <<>> THEN "#A3A3A3" ELSE a[1].colour,
                        n |-> Occurrences(ids, id),
                        label |-> IF a = <<>> THEN "Unknown" ELSE a[1].name]
    IN  [i \in 1 .. Len(keys) |-> seg(keys[i])]

\* lines 491-501: one segment per key of counts in insertion order, then the
\* free segment
Segments(ids, activities) ==
    LET keys == CountKeys(ids)
        seg(id) == LET a == ActivityById(activities, id)
                   IN  [key |-> id,
                        colour |-> IF a = <<>> THEN "#A3A3A3" ELSE a[1].colour,
                        n |-> Occurrences(ids, id),
                        label |-> IF a = <<>> THEN "Unknown" ELSE a[1].name]
        acts == [i \in 1 .. Len(keys) |-> seg(keys[i])]
    IN  IF FreeCount(ids) > 0
        THEN Append(acts, [key |-> "__free__", colour |-> "rgba(255,255,255,0.06)",
                           n |-> FreeCount(ids), label |-> "Free"])
        ELSE acts

\* SortSegments with equal counts put in reverse order of insertion
RECURSIVE SortSegments_unstable(_)
SortSegments_unstable(segs) ==
    IF segs = <<>> THEN <<>>
    ELSE LET sorted == SortSegments_unstable(SubSeq(segs, 1, Len(segs) - 1))
             s == segs[Len(segs)]
             k == Cardinality({i \in 1 .. Len(sorted) : sorted[i].n > s.n})
         IN  SpliceIn(sorted, k, s)

\* segments.sort((a, b) => b.n - a.n): a stable sort, larger counts first
RECURSIVE SortSegments(_)
SortSegments(segs) ==
    IF segs = <<>> THEN <<>>
    ELSE LET sorted == SortSegments(SubSeq(segs, 1, Len(segs) - 1))
             s == segs[Len(segs)]
             k == Cardinality({i \in 1 .. Len(sorted) : sorted[i].n >= s.n})
         IN  SpliceIn(sorted, k, s)

\* StripeKind with the test free === 0 left out
StripeKind_ignoresFree(ids) ==
    IF Len(CountKeys(ids)) = 0 THEN "free"
    ELSE IF Len(CountKeys(ids)) = 1 THEN "single"
    ELSE "mixed"

\* lines 483-489: the kind of the block
StripeKind(ids) ==
    IF Len(CountKeys(ids)) = 0 THEN "free"
    ELSE IF Len(CountKeys(ids)) = 1 /\ FreeCount(ids) = 0 THEN "single"
    ELSE "mixed"

\* the value of acc when the loop of lines 508-513 reaches segment i
RECURSIVE AccBefore(_, _)
AccBefore(segs, i) == IF i <= 1 THEN 0 ELSE AccBefore(segs, i - 1) + segs[i - 1].n

\* ((acc / total) * 100).toFixed(2), in hundredths of a percent
Percent(acc, total) == (2 * 10000 * acc + total) \div (2 * total)

\* lines 505-513: one colour stop per segment, from the cumulative count
\* before it to the cumulative count after it
GradientStops(segs, total) ==
    [i \in 1 .. Len(segs) |->
        [colour |-> segs[i].colour,
         from |-> Percent(AccBefore(segs, i), total),
         to |-> Percent(AccBefore(segs, i + 1), total)]]

\* getStripeBackground for the grid, registry and view step given
Stripe(grid, activities, g, dayIndex, startRow) ==
    LET ids == BlockIds(grid, dayIndex, startRow, g)
        kind == StripeKind(ids)
        segments == SortSegments(Segments(ids, activities))
    IN  [kind |-> kind,
         activity |-> IF kind = "single" THEN ActivityById(activities, CountKeys(ids)[1])
                      ELSE <<>>,
         segments |-> IF kind = "mixed" THEN segments ELSE <<>>,
         stops |-> IF kind = "mixed" THEN GradientStops(segments, g) ELSE <<>>]

getStripeBackground(dayIndex, startRow) ==
    Stripe(activePlan.grid, activePlan.activities, viewStep, dayIndex, startRow)

\* lines 1230-1289: what the cell of the block shows: its background (the
\* activity's colour as a tint, the gradient of the stops, or transparent),
\* the activity name its title starts with, and its icon
RenderCell(dayIndex, startRow) ==
    LET cellInfo == getStripeBackground(dayIndex, startRow)
        a == cellInfo.activity
        isQuarterHour == startRow % 3 = 0
    IN  IF cellInfo.kind = "single"
        THEN [background |-> IF a # <<>> THEN "tint" ELSE "transparent",
              colour |-> IF a # <<>> THEN << a[1].colour >> ELSE <<>>,
              gradient |-> <<>>,
              name |-> IF a # <<>> THEN << a[1].name >> ELSE <<>>,
              icon |-> IF a # <<>> /\ isQuarterHour THEN << a[1].icon >> ELSE <<>>]
        ELSE IF cellInfo.kind = "mixed"
        THEN [background |-> "gradient", colour |-> <<>>, gradient |-> cellInfo.stops,
              name |-> <<>>, icon |-> <<>>]
        ELSE [background |-> "transparent", colour |-> <<>>, gradient |-> <<>>,
              name |-> <<>>, icon |-> <<>>]

\* the rows rendered at granularity g: startRow = visIndex * g for
\* visIndex < slots / g
VisualRows(g) == {visIndex * g : visIndex \in 0 .. ((NumSlots \div g) - 1)}

\* the rows the pointer reaches: the first two rows rendered
PointerRows(g) == VisualRows(g) \cap {0, g}

(***************************************************************************)
(* Paint engine                                                            *)
(***************************************************************************)
NoCell == [day |-> -1, row |-> -1]

\* (buttons & 2) === 2
SecondaryHeld(buttons) == (buttons \div 2) % 2 = 1

\* the (e.button, e.buttons) pairs of a mousedown: primary alone, secondary
\* alone, primary pressed while the secondary is held
MouseDowns == {<<0, 1>>, <<2, 2>>, <<0, 3>>}

ReorderUnchanged == UNCHANGED <<reorderDrag, pointersDown>>

\* onCellPointerDown (beginStroke)
\* PaintValue that falls back to the first activity when none is selected
PaintValue_firstActivity(mode) ==
    IF mode = "erase" THEN NULL
    ELSE IF activePlan.selectedActivityId = NULL /\ activePlan.activities # <<>>
    THEN activePlan.activities[1].id
    ELSE activePlan.selectedActivityId

\* lines 455-456 and 469-470: the value a stroke in the mode given writes,
\* null when erasing, else activePlan.selectedActivityId ?? null
PaintValue(mode) == IF mode = "erase" THEN NULL ELSE activePlan.selectedActivityId

onCellPointerDown(button, buttons, dayIndex, startRow) ==
    LET isRightClick == button = 2 \/ SecondaryHeld(buttons)
        mode == IF isRightClick THEN "erase" ELSE activePlan.tool
        v == PaintValue(mode)
    IN  /\ isMouseDown' = TRUE
        /\ lastPaint' = [day |-> dayIndex, row |-> startRow]
        /\ dragPaintMode' = mode
        /\ plans' = applyRange(plans, dayIndex, startRow, viewStep, v)
        /\ lastWrite' = << [day |-> dayIndex, start |-> startRow, len |-> viewStep,
                            value |-> v] >>
        /\ strokePath' = << <<dayIndex, startRow>> >>
        /\ strokeWrites' = 1
        /\ ReorderUnchanged
        /\ UNCHANGED <<activePlanId, timeScale, nextUid, jsonStatus>>

\* line 451 with the test always false
SameAsLast_never(last, dayIndex, startRow) == FALSE

\* line 451 without the test of the row
SameAsLast_dayOnly(last, dayIndex, startRow) == last.day = dayIndex

\* line 451 without the test of the day
SameAsLast_rowOnly(last, dayIndex, startRow) == last.row = startRow

\* line 451 with the test of the day inverted
SameAsLast_otherDay(last, dayIndex, startRow) == last.day # dayIndex /\ last.row = startRow

\* line 451: last.day === dayIndex && last.row === startRow
SameAsLast(last, dayIndex, startRow) == last.day = dayIndex /\ last.row = startRow

\* onCellPointerEnter (continueStroke)
onCellPointerEnter(dayIndex, startRow) ==
    /\ IF ~isMouseDown
       THEN UNCHANGED <<lastPaint, plans, lastWrite, strokePath, strokeWrites>>
       ELSE /\ strokePath' = Append(strokePath, <<dayIndex, startRow>>)
            /\ IF SameAsLast(lastPaint, dayIndex, startRow)
               THEN UNCHANGED <<lastPaint, plans, lastWrite, strokeWrites>>
               ELSE LET v == PaintValue(dragPaintMode)
                    IN  /\ lastPaint' = [day |-> dayIndex, row |-> startRow]
                        /\ plans' = applyRange(plans, dayIndex, startRow, viewStep, v)
                        /\ lastWrite' = << [day |-> dayIndex, start |-> startRow,
                                            len |-> viewStep, value |-> v] >>
                        /\ strokeWrites' = strokeWrites + 1
    /\ ReorderUnchanged
    /\ UNCHANGED <<activePlanId, timeScale, isMouseDown, dragPaintMode, nextUid,
                   jsonStatus>>

\* onUpPaint that leaves lastPaintRef as it is
onUpPaint_keepsLastPaint ==
    /\ isMouseDown' = FALSE
    /\ dragPaintMode' = "paint"
    /\ UNCHANGED <<lastPaint, reorderDrag, pointersDown, plans, activePlanId, timeScale,
                   nextUid, jsonStatus, lastWrite, strokePath, strokeWrites>>

\* the events onUp is registered for, lines 352-353
UpEvents == {"mouseup", "mouseleave"}

\* onUp of the global mouseup / mouseleave effect (endStroke)
onUpPaint ==
    /\ isMouseDown' = FALSE
    /\ dragPaintMode' = "paint"
    /\ lastPaint' = NoCell
    /\ ReorderUnchanged
    /\ UNCHANGED <<plans, activePlanId, timeScale, nextUid, jsonStatus, lastWrite,
                   strokePath, strokeWrites>>

PaintUnchanged ==
    UNCHANGED <<isMouseDown, dragPaintMode, lastPaint, lastWrite, strokePath,
                strokeWrites>>

(***************************************************************************)
(* Toolbar and activity list                                               *)
(***************************************************************************)
setTimeScale(k) ==
    /\ timeScale' = k
    /\ PaintUnchanged /\ ReorderUnchanged
    /\ UNCHANGED <<plans, activePlanId, nextUid, jsonStatus>>

\* onClick of the paint / erase buttons
setTool(tool) ==
    /\ plans' = updateActivePlan(plans, [tool |-> tool])
    /\ PaintUnchanged /\ ReorderUnchanged
    /\ UNCHANGED <<activePlanId, timeScale, nextUid, jsonStatus>>

\* onClick of an activity row
selectActivity(activityId) ==
    /\ activityId \in IdSet(activePlan.activities)
    /\ plans' = updateActivePlan(plans, [selectedActivityId |-> activityId])
    /\ PaintUnchanged /\ ReorderUnchanged
    /\ UNCHANGED <<activePlanId, timeScale, nextUid, jsonStatus>>

addActivity ==
    /\ nextUid <= MaxUid
    /\ LET id == "a_" \o uid(nextUid)
       IN  plans' = updateActivePlan(plans,
               [activities |-> Append(activePlan.activities,
                                  [id |-> id, name |-> "New activity",
                                   colour |-> "#8B5CF6", icon |-> "calendar"]),
                selectedActivityId |-> id])
    /\ nextUid' = nextUid + 1
    /\ PaintUnchanged /\ ReorderUnchanged
    /\ UNCHANGED <<activePlanId, timeScale, jsonStatus>>

\* the patches the activity editor sends: a name, a colour or an icon
ActivityPatches == {[name |-> "Renamed"], [colour |-> "#F97316"], [icon |-> "coffee"]}

updateActivity(activityId, patch) ==
    /\ activityId \in IdSet(activePlan.activities)
    /\ plans' = updateActivePlan(plans,
           [activities |-> [i \in 1 .. Len(activePlan.activities) |->
                               IF activePlan.activities[i].id = activityId
                               THEN Patched(activePlan.activities[i], patch)
                               ELSE activePlan.activities[i]]])
    /\ PaintUnchanged /\ ReorderUnchanged
    /\ UNCHANGED <<activePlanId, timeScale, nextUid, jsonStatus>>

\* clearActivityCells that also drops the selection of the activity
clearActivityCells_deselects(activityId) ==
    /\ activityId \in IdSet(activePlan.activities)
    /\ plans' = updateActivePlan(plans,
           [grid |-> clearGridForActivity(activePlan.grid, activityId),
            selectedActivityId |-> IF activePlan.selectedActivityId = activityId THEN NULL
                                   ELSE activePlan.selectedActivityId])
    /\ PaintUnchanged /\ ReorderUnchanged
    /\ UNCHANGED <<activePlanId, timeScale, nextUid, jsonStatus>>

clearActivityCells(activityId) ==
    /\ activityId \in IdSet(activePlan.activities)
    /\ plans' = updateActivePlan(plans,
           [grid |-> clearGridForActivity(activePlan.grid, activityId)])
    /\ PaintUnchanged /\ ReorderUnchanged
    /\ UNCHANGED <<activePlanId, timeScale, nextUid, jsonStatus>>

\* DeletePatch that takes the new selection from the list before the removal
DeletePatch_staleSelection(p, activityId) ==
    [activities |-> FilterOutId(p.activities, activityId),
     grid |-> clearGridForActivity(p.grid, activityId),
     selectedActivityId |-> IF p.selectedActivityId = activityId
                            THEN p.activities[1].id
                            ELSE p.selectedActivityId]

\* DeletePatch with the selection left as it was
DeletePatch_keepsSelection(p, activityId) ==
    [activities |-> FilterOutId(p.activities, activityId),
     grid |-> clearGridForActivity(p.grid, activityId),
     selectedActivityId |-> p.selectedActivityId]

\* deleteActivity, lines 553-556: the patch of the active plan
DeletePatch(p, activityId) ==
    LET nextActivities == FilterOutId(p.activities, activityId)
        nextGrid == clearGridForActivity(p.grid, activityId)
        nextSelected == IF p.selectedActivityId = activityId
                        THEN IF Len(nextActivities) > 0 THEN nextActivities[1].id ELSE NULL
                        ELSE p.selectedActivityId
    IN  [activities |-> nextActivities, grid |-> nextGrid,
         selectedActivityId |-> nextSelected]

deleteActivity(activityId) ==
    /\ activityId \in IdSet(activePlan.activities)
    /\ plans' = updateActivePlan(plans, DeletePatch(activePlan, activityId))
    /\ PaintUnchanged /\ ReorderUnchanged
    /\ UNCHANGED <<activePlanId, timeScale, nextUid, jsonStatus>>

(***************************************************************************)
(* Plan manager: commitPlanModal, the plan selector                        *)
(***************************************************************************)
\* cloneDeep: JSON.parse(JSON.stringify(plan)) of a plan of strings, nulls and
\* arrays builds a new value with the same fields
cloneDeep(p) ==
    [id |-> p.id, name |-> p.name,
     activities |-> [i \in 1 .. Len(p.activities) |-> p.activities[i]],
     grid |-> [d \in DOMAIN p.grid |-> [r \in DOMAIN p.grid[d] |-> p.grid[d][r]]],
     selectedActivityId |-> p.selectedActivityId,
     tool |-> p.tool]

\* the effect "Keep activePlanId valid", run after every change of plans or
\* activePlanId
KeepValid(ps, id) ==
    IF ps = <<>> THEN id
    ELSE IF id = NULL \/ PlanIndex(ps, id) < 0 THEN ps[1].id
    ELSE id

\* the trimmed name drafts tried: a name, a blank draft, a draft of 61 characters
LongName == "0123456789012345678901234567890123456789012345678901234567890"
NameDrafts == {"New plan", "", LongName}

\* commitPlanModal with planModalMode = mode and planNameDraft.trim() = trimmed
commitPlanModal(mode, trimmed) ==
    /\ PaintUnchanged /\ ReorderUnchanged
    /\ UNCHANGED <<timeScale, jsonStatus>>
    /\ IF mode # "delete" /\ (trimmed = "" \/ Len(trimmed) > 60)
       THEN UNCHANGED <<plans, activePlanId, nextUid>>
       ELSE CASE mode = "new" ->
                   /\ nextUid <= MaxUid
                   /\ LET p == makeDefaultPlan(nextUid, trimmed)
                      IN  /\ plans' = Append(plans, p)
                          /\ activePlanId' = p.id
                   /\ nextUid' = nextUid + 1
              [] mode = "rename" ->
                   /\ plans' = [i \in 1 .. Len(plans) |->
                                   IF plans[i].id = activePlan.id
                                   THEN [plans[i] EXCEPT !.name = trimmed]
                                   ELSE plans[i]]
                   /\ UNCHANGED <<activePlanId, nextUid>>
              [] mode = "duplicate" ->
                   /\ nextUid <= MaxUid
                   /\ LET copyPlan == [cloneDeep(activePlan) EXCEPT
                                          !.id = "p_" \o uid(nextUid),
                                          !.name = trimmed]
                      IN  /\ plans' = Append(plans, copyPlan)
                          /\ activePlanId' = copyPlan.id
                   /\ nextUid' = nextUid + 1
              [] mode = "delete" ->
                   IF Len(plans) <= 1
                   THEN UNCHANGED <<plans, activePlanId, nextUid>>
                   ELSE LET currentId == activePlan.id
                            remaining == FilterOutId(plans, currentId)
                        IN  /\ plans' = remaining
                            /\ activePlanId' =
                                   KeepValid(remaining,
                                       IF Len(remaining) > 0 THEN remaining[1].id ELSE NULL)
                            /\ UNCHANGED nextUid

\* onChange of the plan selector
setActivePlanId(id) ==
    /\ id \in IdSet(plans)
    /\ activePlanId' = id
    /\ PaintUnchanged /\ ReorderUnchanged
    /\ UNCHANGED <<plans, timeScale, nextUid, jsonStatus>>

(***************************************************************************)
(* Import.  A document is the outcome of safeParseJSON(jsonBuffer): whether *)
(* it parses, whether the value is an object, whether plans is an array,    *)
(* and for each plan the typeof / Array.isArray checks it fails             *)
(* (malformed) next to its fields.                                          *)
(***************************************************************************)
\* the check of a plan without the length of the columns
PlanShapeOk_columnsUnchecked(p) ==
    /\ p.malformed = {}
    /\ DOMAIN p.grid = 0 .. (NumDays - 1)

\* lines 585-595: the check of one plan of the document
PlanShapeOk(p) ==
    /\ p.malformed = {}
    /\ DOMAIN p.grid = 0 .. (NumDays - 1)
    /\ \A d \in DOMAIN p.grid : DOMAIN p.grid[d] = 0 .. (NumSlots - 1)

AsPlan(p) ==
    [id |-> p.id, name |-> p.name, activities |-> p.activities, grid |-> p.grid,
     selectedActivityId |-> p.selectedActivityId, tool |-> p.tool]

applyImport(doc) ==
    /\ PaintUnchanged /\ ReorderUnchanged
    /\ UNCHANGED <<timeScale, nextUid>>
    /\ IF ~doc.parses
       THEN jsonStatus' = "error: parse" /\ UNCHANGED <<plans, activePlanId>>
       ELSE IF ~doc.isObject
       THEN jsonStatus' = "error: JSON must be an object." /\ UNCHANGED <<plans, activePlanId>>
       ELSE IF ~doc.plansIsArray \/ Len(doc.plans) = 0
       THEN /\ jsonStatus' = "error: JSON must include a non-empty 'plans' array."
            /\ UNCHANGED <<plans, activePlanId>>
       ELSE IF ~(\A i \in 1 .. Len(doc.plans) : PlanShapeOk(doc.plans[i]))
       THEN /\ jsonStatus' = "error: One or more plans are invalid."
            /\ UNCHANGED <<plans, activePlanId>>
       ELSE LET adopted == [i \in 1 .. Len(doc.plans) |-> AsPlan(doc.plans[i])]
            IN  /\ plans' = adopted
                /\ activePlanId' =
                       KeepValid(adopted,
                           IF doc.activePlanId # NULL THEN doc.activePlanId
                           ELSE adopted[1].id)
                /\ jsonStatus' = "ok"

\* the effect "Initial load from storage", lines 310-326, followed by the
\* effect "Keep activePlanId valid"; it runs once, after the first render.
\* stored is <<>> when localStorage holds nothing under STORAGE_KEY, else
\* << doc >> for the document it holds.
initialLoad(stored) ==
    /\ activePlanId = NULL
    /\ PaintUnchanged /\ ReorderUnchanged
    /\ UNCHANGED <<timeScale, nextUid, jsonStatus>>
    /\ IF /\ stored # <<>>
          /\ stored[1].parses /\ stored[1].isObject
          /\ stored[1].plansIsArray /\ Len(stored[1].plans) > 0
       THEN LET doc == stored[1]
                adopted == [i \in 1 .. Len(doc.plans) |-> AsPlan(doc.plans[i])]
            IN  /\ plans' = adopted
                /\ activePlanId' =
                       KeepValid(adopted,
                           IF doc.activePlanId # NULL THEN doc.activePlanId
                           ELSE adopted[1].id)
       ELSE /\ plans' = plans
            /\ activePlanId' = plans[1].id

\* a grid entry of the document that is a JSON number
NumberCell == "#42"

\* documents tried
DocPlan(id, grid) ==
    [malformed |-> {}, id |-> id, name |-> "Imported",
     activities |-> SubSeq(DefaultActivities, 1, 2), grid |-> grid,
     selectedActivityId |-> "a_work", tool |-> "paint"]

GridOfShape(days, slots, v) == [d \in 0 .. (days - 1) |-> [r \in 0 .. (slots - 1) |-> v]]

Doc(ps, active) ==
    [parses |-> TRUE, isObject |-> TRUE, plansIsArray |-> TRUE, plans |-> ps,
     activePlanId |-> active]

ImportDocs ==
    { [Doc(<<>>, NULL) EXCEPT !.parses = FALSE],
      [Doc(<<>>, NULL) EXCEPT !.isObject = FALSE],
      [Doc(<<>>, NULL) EXCEPT !.plansIsArray = FALSE],
      Doc(<<>>, NULL),
      Doc(<< DocPlan("p_a", GridOfShape(NumDays, NumSlots, "a_work")) >>, "p_a"),
      Doc(<< DocPlan("p_a", GridOfShape(NumDays, NumSlots, NULL)),
             DocPlan("p_b", GridOfShape(NumDays, NumSlots, "a_family")) >>, "p_zz"),
      Doc(<< DocPlan("p_a", GridOfShape(NumDays, NumSlots, "a_gone")) >>, NULL),
      Doc(<< DocPlan("p_a", GridOfShape(NumDays - 1, NumSlots, NULL)) >>, "p_a"),
      Doc(<< DocPlan("p_a", GridOfShape(NumDays, NumSlots, NULL)),
             DocPlan("p_b", GridOfShape(NumDays, NumSlots - 1, NULL)) >>, "p_a"),
      Doc(<< [DocPlan("p_a", GridOfShape(NumDays, NumSlots, NULL))
                 EXCEPT !.malformed = {"name"}] >>, "p_a"),
      Doc(<< [DocPlan("p_a", GridOfShape(NumDays, NumSlots, NULL))
                 EXCEPT !.activities[1].id = NULL] >>, "p_a"),
      Doc(<< DocPlan("p_a", GridOfShape(NumDays, NumSlots, NumberCell)) >>, "p_a"),
      Doc(<< DocPlan("p_a", GridOfShape(NumDays, NumSlots, NULL)),
             [DocPlan("p_b", GridOfShape(NumDays, NumSlots, NULL))
                 EXCEPT !.activities[2].name = NULL] >>, "p_a") }

(***************************************************************************)
(* Initial state: after the first render and its mount effects with an     *)
(* empty storage (one default plan, made active).                          *)
(***************************************************************************)
Init ==
    /\ plans = << makeDefaultPlan(0, "Default") >>
    /\ activePlanId = "p_" \o uid(0)
    /\ timeScale = "5"
    /\ isMouseDown = FALSE
    /\ dragPaintMode = "paint"
    /\ lastPaint = NoCell
    /\ reorderDrag = NoDrag
    /\ pointersDown = {}
    /\ nextUid = 1
    /\ jsonStatus = NULL
    /\ lastWrite = <<>>
    /\ strokePath = <<>>
    /\ strokeWrites = 0
    /\ lastOp = [op |-> "init", arg |-> NULL]
    /\ steps = 0

(***************************************************************************)
(* Specifications.  Each one bounds the number of handler runs of a        *)
(* behaviour.                                                              *)
(***************************************************************************)
MaxSteps == 2
MaxPaintSteps == 3
MaxEditSteps == 3

Tick(bound) == steps < bound /\ steps' = steps + 1

NoTick == UNCHANGED steps

Did(op, arg) == lastOp' = [op |-> op, arg |-> arg]

TimeScales == {"5", "15", "60"}
Tools == {"paint", "erase"}
PlanModalModes == {"new", "rename", "duplicate", "delete"}

\* a direct call of applyRange
callApplyRange(dayIndex, startRow, len, v) ==
    /\ plans' = applyRange(plans, dayIndex, startRow, len, v)
    /\ lastWrite' = << [day |-> dayIndex, start |-> startRow, len |-> len, value |-> v] >>
    /\ ReorderUnchanged
    /\ UNCHANGED <<activePlanId, timeScale, isMouseDown, dragPaintMode, lastPaint,
                   nextUid, jsonStatus, strokePath, strokeWrites>>

\* SpecReorder: the reorder engine alone, on the default registry
NextReorder ==
    \/ \E p \in Pointers, b \in {0, 2}, a \in IdSet(activePlan.activities) :
           startReorder(p, b, a) /\ Did("startReorder", a) /\ NoTick
    \/ \E p \in Pointers, y \in PointerYs : onMove(p, y) /\ Did("onMove", <<p, y>>) /\ NoTick
    \/ \E p \in Pointers, ev \in ReleaseEvents :
           onUp(p) /\ Did("onUp", <<p, ev>>) /\ NoTick

SpecReorder == Init /\ [][NextReorder]_vars

\* SpecLists: the reorder engine on registries of one to four activities
InitLists ==
    /\ \E n \in 1 .. Len(DefaultActivities) :
           plans = << [makeDefaultPlan(0, "Default") EXCEPT
                          !.activities = SubSeq(DefaultActivities, 1, n)] >>
    /\ activePlanId = "p_" \o uid(0)
    /\ timeScale = "5"
    /\ isMouseDown = FALSE
    /\ dragPaintMode = "paint"
    /\ lastPaint = NoCell
    /\ reorderDrag = NoDrag
    /\ pointersDown = {}
    /\ nextUid = 1
    /\ jsonStatus = NULL
    /\ lastWrite = <<>>
    /\ strokePath = <<>>
    /\ strokeWrites = 0
    /\ lastOp = [op |-> "init", arg |-> NULL]
    /\ steps = 0

SpecLists == InitLists /\ [][NextReorder]_vars

\* SpecGrid: applyRange called once with any day, start, length and value, on
\* a grid drawn from GridFamily.  Column d of a family grid repeats a pattern
\* of three values, either cell by cell ("cycle": every block of three slots
\* holds the pattern, rotated by d), laid out in three equal runs ("runs") or
\* in two halves ("halves").
RangeLens == 0 .. (NumSlots + 1)
RangeValues == {NULL, "a_work", "a_family"}
Patterns == [0 .. 2 -> RangeValues]

FamilyGrid(pat, layout) ==
    [d \in Days |-> [r \in Slots |->
        IF layout = "cycle" THEN pat[(r + d) % 3]
        ELSE IF layout = "runs" THEN pat[((3 * r) \div NumSlots + d) % 3]
        ELSE pat[((2 * r) \div NumSlots + d) % 3]]]

GridFamily ==
    {FamilyGrid(pat, layout) : pat \in Patterns, layout \in {"cycle", "runs", "halves"}}

InitGrid ==
    /\ \E g \in GridFamily :
           plans = << [makeDefaultPlan(0, "Default") EXCEPT !.grid = g] >>
    /\ activePlanId = "p_" \o uid(0)
    /\ timeScale = "5"
    /\ isMouseDown = FALSE
    /\ dragPaintMode = "paint"
    /\ lastPaint = NoCell
    /\ reorderDrag = NoDrag
    /\ pointersDown = {}
    /\ nextUid = 1
    /\ jsonStatus = NULL
    /\ lastWrite = <<>>
    /\ strokePath = <<>>
    /\ strokeWrites = 0
    /\ lastOp = [op |-> "init", arg |-> NULL]
    /\ steps = 0

NextGrid ==
    \E d \in Days, r \in Slots, len \in RangeLens, v \in RangeValues :
        lastWrite = <<>> /\ callApplyRange(d, r, len, v) /\ Did("applyRange", NULL) /\ NoTick

SpecGrid == InitGrid /\ [][NextGrid]_vars

\* SpecStripe: the grid as rendered at each time scale, after at most one write
\* of one rendered cell
StripeValues == {NULL, "a_sleep"}

NextStripe ==
    \/ \E k \in TimeScales : setTimeScale(k) /\ Did("setTimeScale", k) /\ NoTick
    \/ \E d \in Days, r \in VisualRows(viewStep), v \in StripeValues :
           lastWrite = <<>> /\ callApplyRange(d, r, viewStep, v)
               /\ Did("applyRange", NULL) /\ NoTick

SpecStripe == InitGrid /\ [][NextStripe]_vars

\* SpecOrphans: the rendering of a grid adopted with cells that name ids the
\* registry does not hold
OrphanValues == {NULL, "a_work", "a_gone", "a_lost"}

OrphanGrids ==
    {FamilyGrid(pat, layout) : pat \in [0 .. 2 -> OrphanValues],
                               layout \in {"cycle", "runs", "halves"}}

InitOrphans ==
    /\ \E g \in OrphanGrids :
           plans = << [makeDefaultPlan(0, "Default") EXCEPT !.grid = g] >>
    /\ activePlanId = "p_" \o uid(0)
    /\ timeScale = "5"
    /\ isMouseDown = FALSE
    /\ dragPaintMode = "paint"
    /\ lastPaint = NoCell
    /\ reorderDrag = NoDrag
    /\ pointersDown = {}
    /\ nextUid = 1
    /\ jsonStatus = NULL
    /\ lastWrite = <<>>
    /\ strokePath = <<>>
    /\ strokeWrites = 0
    /\ lastOp = [op |-> "init", arg |-> NULL]
    /\ steps = 0

SpecOrphans == InitOrphans /\ [][NextStripe]_vars

\* SpecActivities: the activity list over a grid of the family
NextActivities ==
    \/ \E a \in IdSet(activePlan.activities) :
           selectActivity(a) /\ Did("selectActivity", a) /\ NoTick
    \/ addActivity /\ Did("addActivity", NULL) /\ NoTick
    \/ \E a \in IdSet(activePlan.activities) :
           clearActivityCells(a) /\ Did("clearActivityCells", a) /\ NoTick
    \/ \E a \in IdSet(activePlan.activities) :
           deleteActivity(a) /\ Did("deleteActivity", a) /\ NoTick

SpecActivities == InitGrid /\ [][NextActivities]_vars

\* SpecClear: activities selected and their cells cleared, over a grid of the
\* family
NextClear ==
    \/ \E a \in IdSet(activePlan.activities) :
           selectActivity(a) /\ Did("selectActivity", a) /\ NoTick
    \/ \E a \in IdSet(activePlan.activities) :
           clearActivityCells(a)
               /\ Did("clearActivityCells", <<a, allocationSummary.minutesById[a]>>) /\ NoTick

SpecClear == InitGrid /\ [][NextClear]_vars

\* SpecStroke: strokes over a grid of the family laid out in runs
StrokeGrids == {FamilyGrid(pat, "runs") : pat \in Patterns}

InitStroke == InitGrid /\ activePlan.grid \in StrokeGrids

NextStroke ==
    \/ \E b \in MouseDowns, d \in Days, r \in PointerRows(viewStep) :
           onCellPointerDown(b[1], b[2], d, r) /\ Did("onCellPointerDown", b) /\ Tick(MaxSteps)
    \/ \E d \in Days, r \in PointerRows(viewStep) :
           onCellPointerEnter(d, r) /\ Did("onCellPointerEnter", NULL) /\ Tick(MaxSteps)
    \/ onUpPaint /\ Did("onUpPaint", NULL) /\ Tick(MaxSteps)
    \/ \E k \in TimeScales : setTimeScale(k) /\ Did("setTimeScale", k) /\ Tick(MaxSteps)

SpecStroke == InitStroke /\ [][NextStroke]_vars

\* SpecUnselected: strokes on a plan that has no selected activity: a plan
\* adopted with a loaded grid and a null selection, or the plan left after
\* every activity was deleted
InitUnselected ==
    /\ \/ \E g \in StrokeGrids :
              plans = << [makeDefaultPlan(0, "Default") EXCEPT
                              !.grid = g, !.selectedActivityId = NULL] >>
       \/ plans = << [makeDefaultPlan(0, "Default") EXCEPT
                         !.activities = <<>>, !.selectedActivityId = NULL] >>
    /\ activePlanId = "p_" \o uid(0)
    /\ timeScale = "5"
    /\ isMouseDown = FALSE
    /\ dragPaintMode = "paint"
    /\ lastPaint = NoCell
    /\ reorderDrag = NoDrag
    /\ pointersDown = {}
    /\ nextUid = 1
    /\ jsonStatus = NULL
    /\ lastWrite = <<>>
    /\ strokePath = <<>>
    /\ strokeWrites = 0
    /\ lastOp = [op |-> "init", arg |-> NULL]
    /\ steps = 0

SpecUnselected == InitUnselected /\ [][NextStroke]_vars

\* SpecDrag: strokes of up to three steps, so that a stroke begun after a
\* change of time scale can move on, over the grids laid out in runs whose
\* first run is free and whose second run is not
DragGrids ==
    {FamilyGrid(pat, "runs") : pat \in {p \in Patterns : p[0] = NULL /\ p[1] # NULL}}

InitDrag == InitGrid /\ activePlan.grid \in DragGrids

NextDrag ==
    \/ \E b \in MouseDowns, d \in Days, r \in PointerRows(viewStep) :
           onCellPointerDown(b[1], b[2], d, r) /\ Did("onCellPointerDown", b)
               /\ Tick(MaxPaintSteps)
    \/ \E d \in Days, r \in PointerRows(viewStep) :
           onCellPointerEnter(d, r) /\ Did("onCellPointerEnter", NULL) /\ Tick(MaxPaintSteps)
    \/ onUpPaint /\ Did("onUpPaint", NULL) /\ Tick(MaxPaintSteps)
    \/ \E k \in TimeScales : setTimeScale(k) /\ Did("setTimeScale", k) /\ Tick(MaxPaintSteps)

SpecDrag == InitDrag /\ [][NextDrag]_vars

\* SpecPlans: every engine on a plan and its duplicate, either of them
\* active.  The plan keeps the first two default activities and a grid laid
\* out in runs of a_work, a_family and free slots.
DuplicatedPlan ==
    [makeDefaultPlan(0, "Default") EXCEPT
        !.activities = SubSeq(DefaultActivities, 1, 2),
        !.grid = FamilyGrid([i \in 0 .. 2 |-> <<"a_work", "a_family", NULL>>[i + 1]], "runs")]

InitPlans ==
    /\ plans = << DuplicatedPlan,
                  [cloneDeep(DuplicatedPlan) EXCEPT !.id = "p_" \o uid(1),
                                                    !.name = "Default (Copy)"] >>
    /\ activePlanId \in IdSet(plans)
    /\ timeScale = "5"
    /\ isMouseDown = FALSE
    /\ dragPaintMode = "paint"
    /\ lastPaint = NoCell
    /\ reorderDrag = NoDrag
    /\ pointersDown = {}
    /\ nextUid = 2
    /\ jsonStatus = NULL
    /\ lastWrite = <<>>
    /\ strokePath = <<>>
    /\ strokeWrites = 0
    /\ lastOp = [op |-> "init", arg |-> NULL]
    /\ steps = 0

\* SpecPlanManager: plans created, renamed, duplicated, deleted, selected and
\* imported.  The documents: one that is rejected, one plan, two plans with an
\* activePlanId that names neither, and two plans that carry the same id.
PlanDocs ==
    { Doc(<<>>, NULL),
      Doc(<< DocPlan("p_a", GridOfShape(NumDays, NumSlots, "a_work")) >>, "p_a"),
      Doc(<< DocPlan("p_a", GridOfShape(NumDays, NumSlots, NULL)),
             DocPlan("p_b", GridOfShape(NumDays, NumSlots, "a_family")) >>, "p_zz"),
      Doc(<< DocPlan("p_a", GridOfShape(NumDays, NumSlots, NULL)),
             DocPlan("p_a", GridOfShape(NumDays, NumSlots, "a_family")) >>, "p_a") }

\* the component renders: with no plan activePlan is undefined and the render
\* throws at activePlan.activities (line 406), so no handler is left to call
Rendered == plans # <<>>

NextPlanManager ==
    \/ \E m \in PlanModalModes, n \in NameDrafts :
           Rendered /\ commitPlanModal(m, n) /\ Did("commitPlanModal", m) /\ Tick(MaxEditSteps)
    \/ \E id \in IdSet(plans) :
           Rendered /\ setActivePlanId(id) /\ Did("setActivePlanId", id) /\ Tick(MaxEditSteps)
    \/ \E doc \in PlanDocs :
           Rendered /\ applyImport(doc) /\ Did("applyImport", doc) /\ Tick(MaxEditSteps)

SpecPlanManager == Init /\ [][NextPlanManager]_vars

\* SpecLoad: the application from its construction, with what localStorage
\* holds under STORAGE_KEY: nothing, or one of the documents
StoredDocs == {<<>>} \cup {<< doc >> : doc \in ImportDocs}

\* the useState initialisers, lines 258-259
InitMount ==
    /\ plans = << makeDefaultPlan(0, "Default") >>
    /\ activePlanId = NULL
    /\ timeScale = "5"
    /\ isMouseDown = FALSE
    /\ dragPaintMode = "paint"
    /\ lastPaint = NoCell
    /\ reorderDrag = NoDrag
    /\ pointersDown = {}
    /\ nextUid = 1
    /\ jsonStatus = NULL
    /\ lastWrite = <<>>
    /\ strokePath = <<>>
    /\ strokeWrites = 0
    /\ lastOp = [op |-> "init", arg |-> NULL]
    /\ steps = 0

\* activePlanId is null until the mount effects have run, and never after
Mounted == activePlanId # NULL

NextLoad ==
    \/ \E stored \in StoredDocs :
           initialLoad(stored) /\ Did("initialLoad", stored) /\ NoTick
    \/ \E m \in PlanModalModes, n \in NameDrafts :
           Mounted /\ commitPlanModal(m, n) /\ Did("commitPlanModal", m) /\ Tick(MaxSteps)
    \/ \E id \in IdSet(plans) :
           Mounted /\ setActivePlanId(id) /\ Did("setActivePlanId", id) /\ Tick(MaxSteps)
    \/ \E k \in TimeScales : Mounted /\ setTimeScale(k) /\ Did("setTimeScale", k) /\ Tick(MaxSteps)

SpecLoad == InitMount /\ [][NextLoad]_vars

\* SpecRegistry: the activity list edited, reordered and switched away from
\* while a drag may be under way.  Two plans, as left by a new plan and
\* deletions: the first keeps the first one to three default activities and
\* is active, the second keeps Sleep alone.
InitRegistry ==
    /\ \E n \in 1 .. 3 :
           plans = << [makeDefaultPlan(0, "Default") EXCEPT
                          !.activities = SubSeq(DefaultActivities, 1, n)],
                      [makeDefaultPlan(1, "New plan") EXCEPT
                          !.activities = SubSeq(DefaultActivities, 3, 3),
                          !.selectedActivityId = "a_sleep"] >>
    /\ activePlanId = "p_" \o uid(0)
    /\ timeScale = "5"
    /\ isMouseDown = FALSE
    /\ dragPaintMode = "paint"
    /\ lastPaint = NoCell
    /\ reorderDrag = NoDrag
    /\ pointersDown = {}
    /\ nextUid = 2
    /\ jsonStatus = NULL
    /\ lastWrite = <<>>
    /\ strokePath = <<>>
    /\ strokeWrites = 0
    /\ lastOp = [op |-> "init", arg |-> NULL]
    /\ steps = 0

NextRegistry ==
    \/ \E p \in Pointers, b \in {0, 2}, a \in IdSet(activePlan.activities) :
           startReorder(p, b, a) /\ Did("startReorder", a) /\ Tick(MaxEditSteps)
    \/ \E p \in Pointers, y \in PointerYs : onMove(p, y) /\ Did("onMove", p) /\ Tick(MaxEditSteps)
    \/ \E p \in Pointers :
           onUp(p) /\ Did("onUp", <<p, reorderDrag>>) /\ Tick(MaxEditSteps)
    \/ addActivity /\ Did("addActivity", NULL) /\ Tick(MaxEditSteps)
    \/ \E a \in IdSet(activePlan.activities), patch \in ActivityPatches :
           updateActivity(a, patch) /\ Did("updateActivity", a) /\ Tick(MaxEditSteps)
    \/ \E a \in IdSet(activePlan.activities) :
           deleteActivity(a) /\ Did("deleteActivity", a) /\ Tick(MaxEditSteps)
    \/ \E id \in IdSet(plans) : setActivePlanId(id) /\ Did("setActivePlanId", id) /\ Tick(MaxEditSteps)

SpecRegistry == InitRegistry /\ [][NextRegistry]_vars

\* SpecPaint: strokes on the grid, the toolbar and the selection
NextPaint ==
    \/ \E b \in MouseDowns, d \in Days, r \in PointerRows(viewStep) :
           onCellPointerDown(b[1], b[2], d, r) /\ Did("onCellPointerDown", b) /\ Tick(MaxPaintSteps)
    \/ \E d \in Days, r \in PointerRows(viewStep) :
           onCellPointerEnter(d, r) /\ Did("onCellPointerEnter", NULL) /\ Tick(MaxPaintSteps)
    \/ \E ev \in UpEvents : onUpPaint /\ Did("onUpPaint", ev) /\ Tick(MaxPaintSteps)
    \/ \E k \in TimeScales : setTimeScale(k) /\ Did("setTimeScale", NULL) /\ Tick(MaxPaintSteps)
    \/ \E t \in Tools : setTool(t) /\ Did("setTool", NULL) /\ Tick(MaxPaintSteps)
    \/ \E a \in IdSet(activePlan.activities) : selectActivity(a) /\ Did("selectActivity", a) /\ Tick(MaxPaintSteps)

SpecPaint == Init /\ [][NextPaint]_vars

\* Spec: every engine and the plan manager, without import
NextEngines ==
    \/ \E b \in MouseDowns, d \in Days, r \in PointerRows(viewStep) :
           onCellPointerDown(b[1], b[2], d, r) /\ Did("onCellPointerDown", b) /\ Tick(MaxSteps)
    \/ \E d \in Days, r \in PointerRows(viewStep) :
           onCellPointerEnter(d, r) /\ Did("onCellPointerEnter", NULL) /\ Tick(MaxSteps)
    \/ onUpPaint /\ Did("onUpPaint", NULL) /\ Tick(MaxSteps)
    \/ \E k \in TimeScales : setTimeScale(k) /\ Did("setTimeScale", NULL) /\ Tick(MaxSteps)
    \/ \E t \in Tools : setTool(t) /\ Did("setTool", NULL) /\ Tick(MaxSteps)
    \/ \E a \in IdSet(activePlan.activities) : selectActivity(a) /\ Did("selectActivity", a) /\ Tick(MaxSteps)
    \/ addActivity /\ Did("addActivity", NULL) /\ Tick(MaxSteps)
    \/ \E a \in IdSet(activePlan.activities), patch \in ActivityPatches :
           updateActivity(a, patch) /\ Did("updateActivity", a) /\ Tick(MaxSteps)
    \/ \E a \in IdSet(activePlan.activities) : clearActivityCells(a) /\ Did("clearActivityCells", a) /\ Tick(MaxSteps)
    \/ \E a \in IdSet(activePlan.activities) : deleteActivity(a) /\ Did("deleteActivity", a) /\ Tick(MaxSteps)
    \/ \E m \in PlanModalModes, n \in NameDrafts : commitPlanModal(m, n) /\ Did("commitPlanModal", m) /\ Tick(MaxSteps)
    \/ \E id \in IdSet(plans) : setActivePlanId(id) /\ Did("setActivePlanId", id) /\ Tick(MaxSteps)
    \/ \E p \in Pointers, b \in {0, 2}, a \in IdSet(activePlan.activities) :
           startReorder(p, b, a) /\ Did("startReorder", a) /\ Tick(MaxSteps)
    \/ \E p \in Pointers, y \in PointerYs : onMove(p, y) /\ Did("onMove", NULL) /\ Tick(MaxSteps)
    \/ \E p \in Pointers : onUp(p) /\ Did("onUp", NULL) /\ Tick(MaxSteps)

Next == NextEngines

Spec == Init /\ [][Next]_vars

SpecPlans == InitPlans /\ [][NextEngines]_vars

\* SpecImport: Spec with documents imported
NextImport ==
    \/ NextEngines
    \/ \E doc \in ImportDocs : applyImport(doc) /\ Did("applyImport", doc) /\ Tick(MaxSteps)

SpecImport == Init /\ [][NextImport]_vars

(***************************************************************************)
(* Reorder engine: properties                                              *)
(***************************************************************************)
\* a release or cancel of the tracked pointer ends the drag
Released == Dragging /\ reorderDrag' = NoDrag

\* the registry order with the dragged item taken out and put back at index k
MovedTo(activities, draggedId, k) ==
    SpliceIn(FilterOutId(activities, draggedId), k,
             activities[FindIndex(activities, draggedId) + 1])

\* C1: when a drag of item X is released with last computed insertion point k
\* (an index into the order without X), the registry order becomes the order
\* without X with X inserted at position k.
C1_ReleaseInsertsAtInsertionPoint ==
    [][ (/\ Released
         /\ drag.indicatorId # drag.id
         /\ drag.id \in IdSet(activePlan.activities))
        => activePlan'.activities =
               MovedTo(activePlan.activities, drag.id, drag.insertIndex) ]_vars

\* C2: a release while the insertion point still denotes the dragged item's own
\* slot (insertion index = start index, e.g. press then release with no move)
\* leaves the registry order as it was.
C2_ReleaseInOwnSlotIsNoOp ==
    [][ (/\ Released
         /\ drag.insertIndex = drag.startIndex
         /\ FindIndex(activePlan.activities, drag.id) = drag.startIndex)
        => activePlan'.activities = activePlan.activities ]_vars

\* C3: a press on a drag handle while a drag is active leaves the drag state
\* (dragged id, tracked pointer, start index, insertion index) unchanged.
C3_SecondPressIgnored ==
    [][ (Dragging /\ pointersDown' # pointersDown /\ pointersDown \subseteq pointersDown')
        => reorderDrag' = reorderDrag ]_vars

(***************************************************************************)
(* Time grid and aggregation engine: properties                            *)
(***************************************************************************)
\* C4: after applyRange(day, start, length, value) every slot of that day in
\* [start, min(slots, start + length)) holds the value and every other cell of
\* the grid is as it was.
C4_WriteRangeWritesExactlyTheRange ==
    [][ lastOp'.op = "applyRange" =>
          LET w == lastWrite'[1]
              before == activePlan.grid
              after == activePlan'.grid
          IN  \A d \in Days, r \in Slots :
                  after[d][r] =
                      IF d = w.day /\ w.start <= r /\ r < w.start + w.len /\ r < NumSlots
                      THEN w.value ELSE before[d][r] ]_vars

\* a write that runs past the end of the column, onto a day and next to a day
\* that hold other activities
C4_Witness ==
    /\ lastOp.op = "applyRange"
    /\ lastWrite[1].start + lastWrite[1].len > NumSlots
    /\ lastWrite[1].len > 0
    /\ lastWrite[1].value = "a_work"
    /\ \E r \in Slots : activePlan.grid[lastWrite[1].day][r] = "a_family"
    /\ \E d \in Days \ {lastWrite[1].day}, r \in Slots : activePlan.grid[d][r] = "a_family"

\* the values held by the fine slots [startRow, startRow + viewStep) of a day
BlockValues(d, startRow) ==
    {activePlan.grid[d][r] : r \in startRow .. (startRow + viewStep - 1)}

\* C9: at each granularity, a block whose slots are all free classifies as
\* free, a block whose slots all hold one activity id as single carrying that
\* activity, and every other block as mixed.
C9_Classification ==
    \A d \in Days, startRow \in VisualRows(viewStep) :
        LET values == BlockValues(d, startRow)
            stripe == getStripeBackground(d, startRow)
        IN  IF values = {NULL} THEN stripe.kind = "free"
            ELSE IF Cardinality(values) = 1
            THEN /\ stripe.kind = "single"
                 /\ stripe.activity # <<>>
                 /\ {stripe.activity[1].id} = values
            ELSE stripe.kind = "mixed"

\* a day that shows, at the quarter-hour scale, a block of one activity, a
\* block of one activity with free slots, a block of two activities and a
\* free block
C9_Witness ==
    /\ timeScale = "15"
    /\ \E d \in Days :
        /\ \E r \in VisualRows(viewStep) :
               /\ getStripeBackground(d, r).kind = "single"
               /\ BlockValues(d, r) = {"a_work"}
        /\ \E r \in VisualRows(viewStep) :
               /\ getStripeBackground(d, r).kind = "mixed"
               /\ BlockValues(d, r) = {"a_family", NULL}
        /\ \E r \in VisualRows(viewStep) :
               /\ getStripeBackground(d, r).kind = "mixed"
               /\ BlockValues(d, r) = {"a_work", "a_family"}
        /\ \E r \in VisualRows(viewStep) : getStripeBackground(d, r).kind = "free"

\* the index of the first slot of the block that holds id
FirstSlotOf(d, startRow, id) ==
    CHOOSE r \in startRow .. (startRow + viewStep - 1) :
        /\ activePlan.grid[d][r] = id
        /\ \A q \in startRow .. (r - 1) : activePlan.grid[d][q] # id

\* C10: the activity segments of a mixed block are ordered by slot count
\* descending, and two activities with equal counts are ordered by which one
\* occurs first in the scan of the block's slots.
C10_SegmentOrder ==
    \A d \in Days, startRow \in VisualRows(viewStep) :
        LET segs == getStripeBackground(d, startRow).segments
            acts == SelectSeq(segs, LAMBDA x : x.key # "__free__")
        IN  \A i, j \in 1 .. Len(acts) :
                i < j =>
                    \/ acts[i].n > acts[j].n
                    \/ /\ acts[i].n = acts[j].n
                       /\ FirstSlotOf(d, startRow, acts[i].key)
                            < FirstSlotOf(d, startRow, acts[j].key)

\* an hour block that starts with a_work and holds a_work and a_family in
\* equal numbers, a_sleep once and free slots: a_work is listed first although
\* a_family sorts before it, then a_sleep, and the free segment last
C10_Witness ==
    /\ timeScale = "60"
    /\ \E d \in Days :
        LET stripe == getStripeBackground(d, 0)
        IN  /\ activePlan.grid[d][0] = "a_work"
            /\ stripe.kind = "mixed"
            /\ Len(stripe.segments) = 4
            /\ stripe.segments[1].key = "a_work"
            /\ stripe.segments[2].key = "a_family"
            /\ stripe.segments[1].n = stripe.segments[2].n
            /\ stripe.segments[3].key = "a_sleep"
            /\ stripe.segments[4].key = "__free__"

(***************************************************************************)
(* Activity manager: properties                                            *)
(***************************************************************************)
\* C5: right after deleteActivity(id) no grid cell of the plan equals id, id
\* is absent from the registry, and the selection, if it was id, is now an
\* activity of the registry, or null exactly when the registry is left empty;
\* if id was not selected the selection is unchanged.
C5_DeleteActivity ==
    [][ lastOp'.op = "deleteActivity" =>
          LET id == lastOp'.arg
              before == activePlan
              after == activePlan'
          IN  /\ \A d \in Days, r \in Slots : after.grid[d][r] # id
              /\ id \notin IdSet(after.activities)
              /\ IF before.selectedActivityId = id
                 THEN IF after.activities = <<>>
                      THEN after.selectedActivityId = NULL
                      ELSE after.selectedActivityId \in IdSet(after.activities)
                 ELSE after.selectedActivityId = before.selectedActivityId ]_vars

\* the selected activity, deleted while other activities remain, leaves a
\* grid that still holds another activity
C5_Witness ==
    /\ lastOp.op = "deleteActivity"
    /\ lastOp.arg = "a_work"
    /\ activePlan.selectedActivityId = "a_family"
    /\ \E d \in Days, r \in Slots : activePlan.grid[d][r] = "a_family"
    /\ \E d \in Days, r \in Slots : activePlan.grid[d][r] = NULL

\* C6: in every state reached without import, every non-free grid cell of
\* every plan holds an id present in that plan's registry.
C6_NoDanglingReferences ==
    \A i \in 1 .. Len(plans) : \A d \in Days, r \in Slots :
        \/ plans[i].grid[d][r] = NULL
        \/ plans[i].grid[d][r] \in IdSet(plans[i].activities)

\* an activity was deleted from a plan whose grid still holds another one
C6_Witness ==
    /\ lastOp.op = "deleteActivity"
    /\ \E d \in Days, r \in Slots : activePlan.grid[d][r] # NULL

(***************************************************************************)
(* Allocation summary: properties                                          *)
(***************************************************************************)
RECURSIVE SumOver(_, _)
SumOver(f, S) ==
    IF S = {} THEN 0
    ELSE LET x == CHOOSE y \in S : TRUE IN f[x] + SumOver(f, S \ {x})

\* C7: for any grid state, the summary's minutes summed over all activities
\* of the registry plus its free minutes equal the total minutes of the week.
C7_SummarySumsToTotal ==
    LET summary == allocationSummary
    IN  SumOver(summary.minutesById, DOMAIN summary.minutesById) + summary.freeMinutes
            = summary.totalMinutes

(***************************************************************************)
(* Paint engine: properties                                                *)
(***************************************************************************)
StrokeCells == {strokePath[i] : i \in 1 .. Len(strokePath)}

\* C8 as stated: the number of range-writes of a stroke equals the number of
\* distinct (day, coarse cell) pairs the stroke touched.
C8_OneWritePerDistinctCell == strokeWrites = Cardinality(StrokeCells)

\* C8: the number of range-writes of a stroke is one for beginStroke plus one
\* for every continueStroke call that names a cell other than the call just
\* before it: calls repeating the previous cell write nothing, a cell entered
\* again after another cell is written again.
C8_OneWritePerRun ==
    strokeWrites =
        Cardinality({i \in 1 .. Len(strokePath) : i = 1 \/ strokePath[i] # strokePath[i - 1]})

\* a stroke that stays on its first cell for one call and then moves on
C8_Witness ==
    /\ isMouseDown
    /\ Len(strokePath) = 3
    /\ strokePath[1] = strokePath[2]
    /\ strokePath[2] # strokePath[3]
    /\ strokeWrites = 2

(***************************************************************************)
(* Import: properties                                                      *)
(***************************************************************************)
\* the grid is NumDays columns of NumSlots entries
GridIsWeek(grid) ==
    /\ DOMAIN grid = Days
    /\ \A d \in Days : DOMAIN grid[d] = Slots

\* the document is not an object, has no non-empty plans array, or holds a
\* plan whose grid is not a week
DocUnacceptable(doc) ==
    \/ ~doc.parses
    \/ ~doc.isObject
    \/ ~doc.plansIsArray
    \/ doc.plans = <<>>
    \/ \E i \in 1 .. Len(doc.plans) : ~GridIsWeek(doc.plans[i].grid)

\* C11: an import of a document that is not an object, has no non-empty plans
\* array or holds a plan whose grid is not a week reports an error and leaves
\* the plans and the active plan id unchanged, also when other plans of the
\* document are valid.
C11_ImportRejectionAllOrNothing ==
    [][ (lastOp'.op = "applyImport" /\ DocUnacceptable(lastOp'.arg)) =>
          /\ jsonStatus' \notin {NULL, "ok"}
          /\ plans' = plans
          /\ activePlanId' = activePlanId ]_vars

\* a document whose first plan is valid and whose second has a short column
\* was imported over plans that had been edited: the edit is still there
C11_Witness ==
    /\ lastOp.op = "applyImport"
    /\ Len(lastOp.arg.plans) = 2
    /\ GridIsWeek(lastOp.arg.plans[1].grid)
    /\ ~GridIsWeek(lastOp.arg.plans[2].grid)
    /\ jsonStatus \notin {NULL, "ok"}
    /\ \E d \in Days, r \in Slots : activePlan.grid[d][r] = "a_work"

\* some activity of some plan of the document has no string id or no string
\* name
DocHasMalformedActivity(doc) ==
    /\ doc.parses /\ doc.isObject /\ doc.plansIsArray
    /\ \E i \in 1 .. Len(doc.plans) : \E j \in 1 .. Len(doc.plans[i].activities) :
           \/ doc.plans[i].activities[j].id = NULL
           \/ doc.plans[i].activities[j].name = NULL

\* C12: an import of a document in which some plan has an activity without a
\* string id or without a string name is rejected and leaves the plans
\* unchanged.
C12_ImportValidatesActivities ==
    [][ (lastOp'.op = "applyImport" /\ DocHasMalformedActivity(lastOp'.arg)) =>
          /\ jsonStatus' # "ok"
          /\ plans' = plans ]_vars

(***************************************************************************)
(* Paint engine: tool resolution                                           *)
(***************************************************************************)
\* the value a write in the given mode stores
StrokeValue(mode) == IF mode = "erase" THEN NULL ELSE activePlan.selectedActivityId

\* C13: at beginStroke the stroke mode is erase if the triggering button is
\* the secondary button and the plan's configured tool otherwise, and every
\* write of the stroke uses this mode.
C13_ToolResolution ==
    [][ /\ lastOp'.op = "onCellPointerDown" =>
              /\ dragPaintMode' = IF lastOp'.arg[1] = 2 THEN "erase" ELSE activePlan.tool
              /\ lastWrite'[1].value = StrokeValue(dragPaintMode')
        /\ (lastOp'.op = "onCellPointerEnter" /\ isMouseDown) =>
              /\ dragPaintMode' = dragPaintMode
              /\ strokeWrites' # strokeWrites =>
                     lastWrite'[1].value = StrokeValue(dragPaintMode) ]_vars

PaintOps == {"onCellPointerDown", "onCellPointerEnter", "onUpPaint"}

\* C14: beginStroke with any button, continueStroke and endStroke leave the
\* configured tool of every plan unchanged, so a primary-button stroke on a
\* plan whose tool is paint paints whatever the strokes before it were.
C14_StrokeKeepsTool ==
    [][ lastOp'.op \in PaintOps =>
          /\ Len(plans') = Len(plans)
          /\ \A i \in 1 .. Len(plans) : plans'[i].tool = plans[i].tool
          /\ (lastOp'.op = "onCellPointerDown" /\ lastOp'.arg = <<0, 1>>
                  /\ activePlan.tool = "paint") =>
                 /\ dragPaintMode' = "paint"
                 /\ lastWrite'[1].value = activePlan.selectedActivityId ]_vars

\* a stroke begun with the secondary button erases a painted cell on a plan
\* whose tool is paint
C14_Witness ==
    /\ lastOp.op = "onCellPointerDown"
    /\ lastOp.arg[1] = 2
    /\ dragPaintMode = "erase"
    /\ activePlan.tool = "paint"
    /\ lastWrite[1].value = NULL
    /\ \E d \in Days, r \in Slots : activePlan.grid[d][r] = "a_work"

(***************************************************************************)
(* Paint engine: the writes of a stroke                                    *)
(***************************************************************************)
\* the step is a beginStroke, or a continueStroke that wrote
StrokeWrote ==
    \/ lastOp'.op = "onCellPointerDown"
    \/ lastOp'.op = "onCellPointerEnter" /\ strokeWrites' # strokeWrites

\* the number of fine slots of a block at the time scale shown
BlockSize == IF timeScale = "5" THEN 1 ELSE IF timeScale = "15" THEN 3 ELSE 12

StrokeOnStart(path) == path # <<>> /\ \A i \in 1 .. Len(path) : path[i] = path[1]

\* C16: after beginStroke, continueStroke calls naming the cell the stroke
\* began on, and the endStroke after them, perform no write: the stroke has
\* written once.
C16_StrokeOnOneCellWritesOnce ==
    [][ /\ (lastOp'.op = "onCellPointerEnter" /\ isMouseDown /\ StrokeOnStart(strokePath')) =>
              /\ plans' = plans
              /\ strokeWrites' = 1
        /\ (lastOp'.op = "onUpPaint" /\ StrokeOnStart(strokePath)) =>
              /\ plans' = plans
              /\ strokeWrites' = 1 ]_vars

\* a stroke that began on a cell, was continued on that cell and was ended
C16_Witness ==
    /\ lastOp.op = "onUpPaint"
    /\ ~isMouseDown
    /\ Len(strokePath) = 2
    /\ strokePath[1] = strokePath[2]
    /\ strokeWrites = 1
    /\ activePlan.grid[strokePath[1][1]][strokePath[1][2]] = "a_work"

\* C17: mouseup and mouseleave both end the stroke: the last painted cell is
\* reset and nothing is written; from then on, until the next beginStroke,
\* continueStroke on any cell writes nothing and leaves the plans unchanged;
\* only beginStroke starts a stroke, and it writes the cell it names, also
\* when that cell was the last one painted.
C17_StrokeTermination ==
    [][ /\ lastOp'.op = "onUpPaint" =>
              /\ ~isMouseDown'
              /\ lastPaint' = NoCell
              /\ plans' = plans
        /\ (lastOp'.op = "onCellPointerEnter" /\ ~isMouseDown) =>
              /\ plans' = plans
              /\ strokeWrites' = strokeWrites
              /\ lastWrite' = lastWrite
        /\ (isMouseDown' /\ ~isMouseDown) => lastOp'.op = "onCellPointerDown"
        /\ lastOp'.op = "onCellPointerDown" =>
              LET cell == strokePath'[1]
              IN  \A r \in cell[2] .. (cell[2] + BlockSize - 1) :
                      activePlan'.grid[cell[1]][r] = StrokeValue(dragPaintMode') ]_vars

\* the pointer left the window during a stroke that had painted: the stroke
\* is over and the last painted cell is reset
C17_Witness ==
    /\ lastOp = [op |-> "onUpPaint", arg |-> "mouseleave"]
    /\ ~isMouseDown
    /\ lastPaint = NoCell
    /\ Len(strokePath) = 2
    /\ strokeWrites = 2
    /\ \A i \in 1 .. 2 : activePlan.grid[strokePath[i][1]][strokePath[i][2]] = "a_work"
\* C18: a newly created plan has a grid of NumDays columns of NumSlots cells,
\* all free, and in every state reached by strokes, activity clear / delete,
\* plan new / duplicate and accepted imports every plan's grid has NumDays
\* columns of NumSlots cells, each an activity id (a string) or free.
C18_GridShape ==
    /\ \A i \in 1 .. Len(plans) :
           /\ GridIsWeek(plans[i].grid)
           /\ \A d \in Days, r \in Slots : plans[i].grid[d][r] # NumberCell
    /\ (lastOp.op = "init" \/ (lastOp = [op |-> "commitPlanModal", arg |-> "new"]
                                 /\ Len(plans) > 1 /\ activePlan = plans[Len(plans)])) =>
           activePlan.grid = buildEmptyWeek
\* C19: in every state reached without import, each plan's selected activity
\* reference is null or the id of an activity of that plan's registry.
C19_SelectionInvariant ==
    \A i \in 1 .. Len(plans) :
        \/ plans[i].selectedActivityId = NULL
        \/ plans[i].selectedActivityId \in IdSet(plans[i].activities)

\* the selected activity was deleted from a duplicate of the first plan: the
\* duplicate selects its first remaining activity, the first plan is as it was
C19_Witness ==
    /\ lastOp = [op |-> "deleteActivity", arg |-> "a_work"]
    /\ Len(plans) = 2
    /\ activePlan = plans[2]
    /\ activePlan.selectedActivityId = "a_family"
    /\ plans[1].selectedActivityId = "a_work"
    /\ "a_work" \in IdSet(plans[1].activities)
(***************************************************************************)
(* reorderByIndex: properties                                              *)
(***************************************************************************)
\* C20: for 0 <= from, to < length, reorderByIndex(list, from, to) has the
\* entries of list, the entry formerly at index from at index to and the
\* other entries in their former order; with from = to it is list.
C20_ReorderByIndex ==
    LET list == activePlan.activities
    IN  \A from, to \in 0 .. (Len(list) - 1) :
            LET out == reorderByIndex(list, from, to)
                moved == list[from + 1]
            IN  /\ Len(out) = Len(list)
                /\ out[to + 1] = moved
                /\ FilterOutId(out, moved.id) = FilterOutId(list, moved.id)
                /\ from = to => out = list

\* a drag has moved the first of three activities to the end, as
\* reorderByIndex([a, b, c], 0, 2) does
C20_Witness ==
    /\ lastOp.op = "onUp"
    /\ IdsOf(activePlan.activities) = <<"a_family", "a_sleep", "a_work">>
    /\ IdsOf(reorderByIndex(DefaultActivities, 1, 3))
           = <<"a_work", "a_sleep", "a_admin", "a_family">>
    /\ IdsOf(reorderByIndex(SubSeq(DefaultActivities, 1, 3), 2, 0))
           = <<"a_sleep", "a_work", "a_family">>
(***************************************************************************)
(* clearGridForActivity and the allocation summary: properties             *)
(***************************************************************************)
\* C21: clearGridForActivity(grid, id) is a grid of the same shape in which
\* every cell that equalled id is free and every other cell is unchanged;
\* applied a second time with the same id it changes nothing.
C21_ClearGridForActivity ==
    LET grid == activePlan.grid
    IN  \A id \in IdSet(DefaultActivities) \cup IdSet(activePlan.activities) :
            LET cleared == clearGridForActivity(grid, id)
            IN  /\ DOMAIN cleared = DOMAIN grid
                /\ \A d \in DOMAIN grid :
                       /\ DOMAIN cleared[d] = DOMAIN grid[d]
                       /\ \A r \in DOMAIN grid[d] :
                              cleared[d][r] = IF grid[d][r] = id THEN NULL ELSE grid[d][r]
                /\ clearGridForActivity(cleared, id) = cleared

\* a grid that holds two activities and free cells, after the cells of a
\* third were cleared: clearing either activity changes it
C21_Witness ==
    /\ lastOp.op = "clearActivityCells"
    /\ \E d \in Days, r \in Slots : activePlan.grid[d][r] = "a_work"
    /\ \E d \in Days, r \in Slots : activePlan.grid[d][r] = "a_family"
    /\ \E d \in Days, r \in Slots : activePlan.grid[d][r] = NULL
    /\ clearGridForActivity(activePlan.grid, "a_work") # activePlan.grid

\* the cells of the grid that hold v
CellsHolding(v) == {c \in Days \X Slots : activePlan.grid[c[1]][c[2]] = v}

\* C22: the summary reports, for every activity of the registry, 5 minutes
\* per cell of the current grid that holds its id (0 when there is none), and
\* as free minutes 5 minutes per free cell.
C22_SummaryValues ==
    LET summary == allocationSummary
    IN  /\ DOMAIN summary.minutesById = IdSet(activePlan.activities)
        /\ \A id \in IdSet(activePlan.activities) :
               summary.minutesById[id] = 5 * Cardinality(CellsHolding(id))
        /\ summary.freeMinutes = 5 * Cardinality(CellsHolding(NULL))

\* after an activity was deleted: one activity holds cells on both days,
\* another holds none, and some cells are free
C22_Witness ==
    /\ lastOp.op = "deleteActivity"
    /\ {"a_work", "a_sleep"} \subseteq IdSet(activePlan.activities)
    /\ allocationSummary.minutesById["a_work"] > 5 * NumSlots
    /\ allocationSummary.minutesById["a_sleep"] = 0
    /\ allocationSummary.freeMinutes > 0
    /\ "a_family" \notin IdSet(activePlan.activities)
(***************************************************************************)
(* Reorder engine: release, cancellation, insertion index                  *)
(***************************************************************************)
\* the step is the pointerup or pointercancel of the tracked pointer
TrackedRelease == lastOp'.op = "onUp" /\ Dragging /\ lastOp'.arg[1] = drag.pointerId

\* list with the entry at index from taken out and put back at index to
SingleMove(list, from, to) == SpliceIn(SpliceOut(list, from), to, list[from + 1])

\* C23: a pointercancel of the tracked pointer, like its release, ends the
\* drag, and leaves the registry order unchanged or with one item moved: the
\* same activities, each once.
C23_CancelIsRelease ==
    [][ TrackedRelease =>
          LET list == activePlan.activities
              after == activePlan'.activities
          IN  /\ reorderDrag' = NoDrag
              /\ Len(after) = Len(list)
              /\ IdSet(after) = IdSet(list)
              /\ \/ after = list
                 \/ \E from, to \in 0 .. (Len(list) - 1) :
                        from # to /\ after = SingleMove(list, from, to) ]_vars

\* a pointercancel ended a drag and the registry order is not the default one
C23_Witness ==
    /\ lastOp.op = "onUp"
    /\ lastOp.arg[2] = "pointercancel"
    /\ reorderDrag = NoDrag
    /\ IdsOf(activePlan.activities) = <<"a_sleep", "a_work", "a_family", "a_admin">>

\* C25: on release the final index is the index, in the order that still has
\* the dragged item, of the sibling the insertion point is before, or the last
\* index when the insertion point is after the last remaining item; if it
\* differs from the start index one single-item move from the start index to
\* it is applied, else the registry is unchanged.
C25_FinalIndexResolution ==
    [][ TrackedRelease =>
          LET list == activePlan.activities
              without == FilterOutId(list, drag.id)
              final == IF drag.insertIndex < Len(without)
                       THEN FindIndex(list, without[drag.insertIndex + 1].id)
                       ELSE Len(list) - 1
          IN  activePlan'.activities =
                  IF final # drag.startIndex
                  THEN SingleMove(list, drag.startIndex, final)
                  ELSE list ]_vars

\* the first activity was released before the last one and now is the last
C25_Witness ==
    /\ lastOp.op = "onUp"
    /\ lastOp.arg[2] = "pointerup"
    /\ reorderDrag = NoDrag
    /\ IdsOf(activePlan.activities) = <<"a_family", "a_sleep", "a_admin", "a_work">>

\* C26: on a pointer move of the tracked pointer the insertion index is the
\* position, in the registry order without the dragged item, of the first item
\* whose midpoint lies below the pointer, or the length of that order if there
\* is none; the dragged item's row does not count.
C26_InsertIndex ==
    [][ (lastOp'.op = "onMove" /\ Dragging /\ lastOp'.arg[1] = drag.pointerId) =>
          LET clientY == lastOp'.arg[2]
              without == FilterOutId(activePlan.activities, drag.id)
              notBelow == {k \in 1 .. Len(without) :
                              RowMidY(activePlan.activities, without[k].id) <= clientY}
          IN  /\ reorderDrag' # NoDrag
              /\ reorderDrag'[1].insertIndex = Cardinality(notBelow)
              /\ \A k \in 1 .. Len(without) : k \in notBelow \/ k > Cardinality(notBelow) ]_vars

\* the pointer is below the midpoint of the dragged second row and above the
\* third row's: the insertion index is 1, before the third row
C26_Witness ==
    /\ lastOp.op = "onMove"
    /\ Dragging
    /\ drag.id = "a_family"
    /\ lastOp.arg = <<drag.pointerId, 4>>
    /\ IdsOf(activePlan.activities) = IdsOf(DefaultActivities)
    /\ drag.insertIndex = 1
    /\ drag.indicatorId = "a_sleep"
(***************************************************************************)
(* Paint engine: continueStroke                                            *)
(***************************************************************************)
\* the step is a continueStroke of a stroke in progress
Continues == lastOp'.op = "onCellPointerEnter" /\ isMouseDown

\* the cell named by the step, and the cell named by the call before it
NamedCell == strokePath'[Len(strokePath')]
PreviousCell == strokePath[Len(strokePath)]

\* C24: a continueStroke naming the (day, block) of the call just before it
\* performs no write; one naming another day or another block performs
\* exactly one write, of the block it names.
C24_ConsecutiveDuplicateSuppression ==
    [][ Continues =>
          IF NamedCell = PreviousCell
          THEN /\ plans' = plans
               /\ strokeWrites' = strokeWrites
               /\ lastWrite' = lastWrite
          ELSE /\ strokeWrites' = strokeWrites + 1
               /\ lastWrite' = << [day |-> NamedCell[1], start |-> NamedCell[2],
                                   len |-> BlockSize,
                                   value |-> StrokeValue(dragPaintMode)] >> ]_vars

\* a stroke moved to another block of the same day and then named it again
C24_Witness ==
    /\ lastOp.op = "onCellPointerEnter"
    /\ isMouseDown
    /\ Len(strokePath) = 3
    /\ strokePath[1][1] = strokePath[2][1]
    /\ strokePath[1][2] # strokePath[2][2]
    /\ strokePath[2] = strokePath[3]
    /\ strokeWrites = 2

\* C29: during a stroke, entering a cell of another day's column writes that
\* day's block in the stroke's mode, also when the row is the row of the cell
\* before, and leaves every other cell of every day unchanged.
C29_CrossDayDrag ==
    [][ (Continues /\ NamedCell[1] # PreviousCell[1]) =>
          /\ strokeWrites' = strokeWrites + 1
          /\ \A d \in Days, r \in Slots :
                 activePlan'.grid[d][r] =
                     IF d = NamedCell[1] /\ NamedCell[2] <= r /\ r < NamedCell[2] + BlockSize
                     THEN StrokeValue(dragPaintMode)
                     ELSE activePlan.grid[d][r] ]_vars

\* at the 15 minute scale a paint stroke went from a cell to the cell of the
\* same row of the other day: both hold the selected activity, cells below
\* them hold a_family
C29_Witness ==
    /\ lastOp.op = "onCellPointerEnter"
    /\ isMouseDown
    /\ dragPaintMode = "paint"
    /\ Len(strokePath) = 2
    /\ strokePath[1][1] # strokePath[2][1]
    /\ strokePath[1][2] = strokePath[2][2]
    /\ strokeWrites = 2
    /\ timeScale = "15"
    /\ \A i \in 1 .. 2 : activePlan.grid[strokePath[i][1]][strokePath[i][2]] = "a_work"
    /\ \A d \in Days : \E r \in Slots : activePlan.grid[d][r] = "a_family"
(***************************************************************************)
(* Aggregation engine: the bands of a mixed block                          *)
(***************************************************************************)
FullWidth == Percent(1, 1)

\* C27: in every mixed block there is one segment per distinct activity id,
\* plus the free segment when the block has free slots; every count is
\* positive and the counts sum to the granularity, so the bands, bounded by the
\* cumulative counts over the granularity, start at 0, end at the full width
\* and each begins where the one before it ends.
C27_MixedBlockBands ==
    \A d \in Days :
        \A startRow \in VisualRows(viewStep) :
            LET stripe == getStripeBackground(d, startRow)
                segs == stripe.segments
                stops == stripe.stops
                values == BlockValues(d, startRow)
                count == Len(segs)
            IN  stripe.kind = "mixed" =>
                    /\ count = Cardinality(values \ {NULL})
                                 + (IF NULL \in values THEN 1 ELSE 0)
                    /\ \A i \in 1 .. count : segs[i].n > 0
                    /\ SumOver([i \in 1 .. count |-> segs[i].n], 1 .. count) = viewStep
                    /\ Len(stops) = count
                    /\ stops[1].from = 0
                    /\ stops[count].to = FullWidth
                    /\ \A i \in 1 .. count :
                           /\ stops[i].from < stops[i].to
                           /\ stops[i].to = Percent(SumOver([j \in 1 .. i |-> segs[j].n], 1 .. i),
                                                    viewStep)
                    /\ \A i \in 1 .. (count - 1) : stops[i].to = stops[i + 1].from

\* an hour block of three activities and free slots: four bands, the first
\* of them ending at a boundary that toFixed rounds
C27_Witness ==
    /\ timeScale = "60"
    /\ \E d \in Days : \E r \in VisualRows(viewStep) :
           LET stripe == getStripeBackground(d, r)
           IN  /\ stripe.kind = "mixed"
               /\ Len(stripe.stops) = 4
               /\ NULL \in BlockValues(d, r)
               /\ stripe.stops[1].to * viewStep # 10000 * stripe.segments[1].n
(***************************************************************************)
(* Paint engine: strokes with no activity selected                         *)
(***************************************************************************)
\* C28: in paint mode with no activity selected, a beginStroke or
\* continueStroke write is performed and sets the whole aligned block free,
\* leaving the other cells as they were: the grid the same stroke produces in
\* erase mode.
C28_PaintWithNothingSelected ==
    [][ (/\ \/ lastOp'.op = "onCellPointerDown"
            \/ Continues /\ NamedCell # PreviousCell
         /\ dragPaintMode' = "paint"
         /\ activePlan.selectedActivityId = NULL) =>
          /\ strokeWrites' = IF Continues THEN strokeWrites + 1 ELSE 1
          /\ lastWrite' = << [day |-> NamedCell[1], start |-> NamedCell[2],
                              len |-> BlockSize, value |-> NULL] >>
          /\ activePlan'.grid =
                 writeRange(activePlan.grid, NamedCell[1], NamedCell[2], BlockSize,
                            StrokeValue("erase"))
          /\ \A d \in Days, r \in Slots :
                 activePlan'.grid[d][r] =
                     IF d = NamedCell[1] /\ NamedCell[2] <= r /\ r < NamedCell[2] + BlockSize
                     THEN NULL
                     ELSE activePlan.grid[d][r] ]_vars

\* a paint stroke with nothing selected went over two cells holding a_work,
\* on a plan that still has activities: both cells are free and the stroke
\* wrote twice
C28_Witness ==
    /\ lastOp.op = "onCellPointerEnter"
    /\ isMouseDown
    /\ dragPaintMode = "paint"
    /\ activePlan.selectedActivityId = NULL
    /\ activePlan.activities # <<>>
    /\ strokeWrites = 2
    /\ \A i \in 1 .. 2 : activePlan.grid[strokePath[i][1]][strokePath[i][2]] = NULL
    /\ \E d \in Days : \E r \in Slots : activePlan.grid[d][r] = "a_work"
    /\ \E d \in Days : \E r \in Slots : activePlan.grid[d][r] = "a_family"
(***************************************************************************)
(* Aggregation engine: ids the registry does not hold                     *)
(***************************************************************************)
\* the ids of the block that the registry does not hold
UnknownIn(d, startRow) ==
    (BlockValues(d, startRow) \ {NULL}) \ IdSet(activePlan.activities)

FreeRender ==
    [background |-> "transparent", colour |-> <<>>, gradient |-> <<>>,
     name |-> <<>>, icon |-> <<>>]

\* C30: on a grid whose cells name ids absent from the registry every block
\* still classifies: a block uniformly holding an unknown id is single with no
\* activity attached and is rendered as a free cell is, and in a mixed block
\* each unknown id has one segment of its own, with its slot count, the
\* placeholder label and the placeholder colour.
C30_UnknownIdsTolerated ==
    \A d \in Days :
        \A startRow \in VisualRows(viewStep) :
            LET stripe == getStripeBackground(d, startRow)
                values == BlockValues(d, startRow)
                own(u) == {i \in 1 .. Len(stripe.segments) : stripe.segments[i].key = u}
            IN  /\ stripe.kind \in {"free", "single", "mixed"}
                /\ \A u \in UnknownIn(d, startRow) :
                       IF values = {u}
                       THEN /\ stripe.kind = "single"
                            /\ stripe.activity = <<>>
                            /\ RenderCell(d, startRow) = FreeRender
                       ELSE /\ stripe.kind = "mixed"
                            /\ Cardinality(own(u)) = 1
                            /\ \A i \in own(u) :
                                   /\ stripe.segments[i].label = "Unknown"
                                   /\ stripe.segments[i].colour = "#A3A3A3"
                                   /\ stripe.segments[i].n =
                                          Cardinality({r \in startRow .. (startRow + viewStep - 1) :
                                                          activePlan.grid[d][r] = u})

\* at the quarter-hour scale one day shows a block holding only a_gone, a
\* block that mixes a_gone with a known activity, and a block that mixes
\* another unknown id with a known activity
C30_Witness ==
    /\ timeScale = "15"
    /\ \E d \in Days :
           /\ \E r \in VisualRows(viewStep) :
                  /\ BlockValues(d, r) = {"a_gone"}
                  /\ getStripeBackground(d, r).kind = "single"
           /\ \E r \in VisualRows(viewStep) :
                  /\ BlockValues(d, r) = {"a_gone", "a_work"}
                  /\ getStripeBackground(d, r).kind = "mixed"
           /\ \E r \in VisualRows(viewStep) : BlockValues(d, r) = {"a_work", "a_lost"}
(***************************************************************************)
(* Activity registry: ids                                                  *)
(***************************************************************************)
\* the position in plans of the plan updateActivePlan patches
ActiveIndex == IF PlanIndex(plans, activePlanId) >= 0 THEN PlanIndex(plans, activePlanId) + 1 ELSE 1

UniqueIds(list) == \A i, j \in 1 .. Len(list) : list[i].id = list[j].id => i = j

\* the ids of a registry after a step, given the ids before it
IdsKept ==
    /\ Len(plans') = Len(plans)
    /\ \A i \in 1 .. Len(plans) :
           LET before == IdsOf(plans[i].activities)
               after == IdsOf(plans'[i].activities)
           IN  IF i # ActiveIndex THEN after = before
               ELSE IF lastOp'.op = "addActivity"
               THEN /\ after = Append(before, "a_" \o uid(nextUid))
                    /\ after[Len(after)] \notin SeqRange(before)
               ELSE IF lastOp'.op = "deleteActivity"
               THEN after = SelectSeq(before, LAMBDA id : id # lastOp'.arg)
               ELSE IF lastOp'.op = "onUp"
               THEN Len(after) = Len(before) /\ SeqRange(after) = SeqRange(before)
               ELSE after = before

\* C31: under add, edit, delete and reorder, starting from created plans, no
\* registry ever holds two activities with the same id, and no step changes
\* the id of an activity: an edit keeps every id in its place, an add appends
\* one fresh id, a delete takes one id out and a reorder permutes the ids.
C31_RegistryIdUniqueness ==
    /\ [](\A i \in 1 .. Len(plans) : UniqueIds(plans[i].activities))
    /\ [][IdsKept]_vars

\* an activity was added and a release then moved the first activity below
\* it: the added activity is first in a registry of distinct ids
C31_Witness ==
    /\ lastOp.op = "onUp"
    /\ Len(activePlan.activities) >= 2
    /\ activePlan.activities[1].id = "a_" \o uid(2)
    /\ UniqueIds(activePlan.activities)
(***************************************************************************)
(* Initial load from storage                                               *)
(***************************************************************************)
\* C32: the initial load adopts the stored document as the plans list only
\* if it has a non-empty plans list whose grids all have NumDays columns of
\* NumSlots entries; any other stored document is rejected whole and the
\* default plan is kept.
C32_LoadValidates ==
    [][ lastOp'.op = "initialLoad" =>
          LET stored == lastOp'.arg
          IN  IF stored # <<>> /\ ~DocUnacceptable(stored[1])
              THEN plans' = [i \in 1 .. Len(stored[1].plans) |-> AsPlan(stored[1].plans[i])]
              ELSE plans' = plans /\ plans' = << makeDefaultPlan(0, "Default") >> ]_vars
(***************************************************************************)
(* Reorder engine: what a gesture changes                                  *)
(***************************************************************************)
\* C33: every step of a reorder gesture (press, move, release or cancel)
\* leaves the registry a permutation of what it was, with the same activities
\* and attributes, and leaves the grid, the selected activity, the tool and
\* the other fields of every plan unchanged; a press or a move leaves the
\* plans as they are.
C33_ReorderChangesOnlyOrder ==
    [][ /\ Len(plans') = Len(plans)
        /\ \A i \in 1 .. Len(plans) :
               /\ Len(plans'[i].activities) = Len(plans[i].activities)
               /\ SeqRange(plans'[i].activities) = SeqRange(plans[i].activities)
               /\ plans'[i] = [plans[i] EXCEPT !.activities = plans'[i].activities]
        /\ lastOp'.op \in {"startReorder", "onMove"} => plans' = plans ]_vars

\* Sleep was dragged from the third row to the top of the four default
\* activities and released
C33_Witness ==
    /\ lastOp.op = "onUp"
    /\ ~Dragging
    /\ IdsOf(activePlan.activities) = <<"a_sleep", "a_work", "a_family", "a_admin">>
    /\ activePlan.selectedActivityId = "a_work"
(***************************************************************************)
(* Aggregation engine: the free segment among equal counts                 *)
(***************************************************************************)
\* C34: in a mixed block, the free segment comes after every activity
\* segment that has the same count, whether the free slots or the activity's
\* slots come first in the block.
C34_FreeSegmentTieOrder ==
    \A d \in Days :
        \A startRow \in VisualRows(viewStep) :
            LET segs == getStripeBackground(d, startRow).segments
            IN  \A f, i \in 1 .. Len(segs) :
                    (/\ segs[f].key = "__free__"
                     /\ segs[i].key # "__free__"
                     /\ segs[i].n = segs[f].n) => i < f

\* an hour block of six free slots followed by six slots of a_work: the band
\* of a_work comes first, then the free band
C34_Witness ==
    /\ timeScale = "60"
    /\ \E d \in Days :
           /\ \A r \in 0 .. 5 : activePlan.grid[d][r] = NULL
           /\ \A r \in 6 .. 11 : activePlan.grid[d][r] = "a_work"
           /\ getStripeBackground(d, 0).kind = "mixed"
           /\ getStripeBackground(d, 0).segments[1].key = "a_work"
           /\ getStripeBackground(d, 0).segments[2].key = "__free__"
           /\ getStripeBackground(d, 0).segments[1].n = getStripeBackground(d, 0).segments[2].n
(***************************************************************************)
(* Plan isolation                                                          *)
(***************************************************************************)
\* the operations of the paint, registry and reorder engines
EngineOps ==
    {"onCellPointerDown", "onCellPointerEnter", "onUpPaint", "setTool", "selectActivity",
     "addActivity", "updateActivity", "clearActivityCells", "deleteActivity",
     "startReorder", "onMove", "onUp"}

\* C35: a paint or erase write, an activity add, edit, clear or delete and a
\* reorder change no plan but the active one: the plans list keeps its length
\* and every other plan is unchanged.  On a plan and its duplicate this means
\* that an edit of the copy leaves the original's grid and registry as they
\* are, and the other way round.
C35_PlanIsolation ==
    [][ lastOp'.op \in EngineOps =>
          /\ Len(plans') = Len(plans)
          /\ \A i \in 1 .. Len(plans) : i # ActiveIndex => plans'[i] = plans[i] ]_vars

\* with the duplicate active, a cell of the copy that held a_family was
\* painted a_work and a_family was then deleted: the copy holds a_work alone,
\* and the original is as it was when duplicated
C35_Witness ==
    /\ lastOp.op = "deleteActivity"
    /\ Len(plans) = 2
    /\ activePlan.id = plans[2].id
    /\ plans[1] = DuplicatedPlan
    /\ IdsOf(plans[2].activities) = <<"a_work">>
    /\ strokeWrites = 1
    /\ \E d \in Days : \E r \in Slots :
           plans[1].grid[d][r] = "a_family" /\ plans[2].grid[d][r] = "a_work"
(***************************************************************************)
(* Plan manager: the plans list and the active plan                        *)
(***************************************************************************)
\* C36: under plan new, rename, duplicate, delete, plan switch and import,
\* accepted or rejected, the plans list is never empty, the active plan is a
\* plan of the list (the first one when activePlanId matches none), and a
\* delete of the only plan changes nothing.
C36_PlansNeverEmpty ==
    /\ [](/\ plans # <<>>
          /\ activePlan \in SeqRange(plans)
          /\ PlanIndex(plans, activePlanId) < 0 => activePlan = plans[1])
    /\ [][ (lastOp' = [op |-> "commitPlanModal", arg |-> "delete"] /\ Len(plans) = 1) =>
             plans' = plans /\ activePlanId' = activePlanId ]_vars
(***************************************************************************)
(* Reorder engine: release of a drag whose activity is gone                *)
(***************************************************************************)
\* the tracked pointer is released or cancelled while the dragged activity is
\* not in the active plan's registry
ReleasedWhenGone ==
    /\ lastOp'.op = "onUp"
    /\ Dragging
    /\ lastOp'.arg[1] = drag.pointerId
    /\ drag.id \notin IdSet(activePlan.activities)

\* C37: when the drag is released or cancelled after the dragged activity
\* left the active plan's registry, because it was deleted or because another
\* plan became active, the engine returns to idle and no plan is changed.
C37_ReleaseAfterVanish ==
    [][ ReleasedWhenGone => reorderDrag' = NoDrag /\ plans' = plans ]_vars

\* the tracked pointer of a drag was released after the active plan had
\* become one that does not hold the dragged activity: the engine is idle
C37_Witness ==
    /\ lastOp.op = "onUp"
    /\ lastOp.arg[2] # NoDrag
    /\ lastOp.arg[2][1].pointerId = lastOp.arg[1]
    /\ lastOp.arg[2][1].id \in IdSet(plans[1].activities)
    /\ lastOp.arg[2][1].id \notin IdSet(activePlan.activities)
    /\ activePlan.id = plans[2].id
    /\ reorderDrag = NoDrag
(***************************************************************************)
(* Reorder engine: events of other pointers                                *)
(***************************************************************************)
\* the step is a move, release or cancel, during a drag, of a pointer that is
\* not the one that started the drag
ForeignPointerEvent ==
    /\ lastOp'.op \in {"onMove", "onUp"}
    /\ Dragging
    /\ lastOp'.arg[1] # drag.pointerId

\* the step is a release or cancel of the pointer that started the drag
TrackedPointerRelease ==
    /\ lastOp'.op = "onUp"
    /\ Dragging
    /\ lastOp'.arg[1] = drag.pointerId

\* C38: during a drag, a move, release or cancel of another pointer changes
\* neither the drag state (dragged id, insertion index, indicator) nor any
\* plan; the dragging state is left only by a release or cancel of the
\* tracked pointer, and such an event always leaves it at once.
C38_PointerFiltering ==
    [][ /\ ForeignPointerEvent => reorderDrag' = reorderDrag /\ plans' = plans
        /\ (Dragging /\ reorderDrag' = NoDrag) => TrackedPointerRelease
        /\ TrackedPointerRelease => reorderDrag' = NoDrag ]_vars

\* during a drag whose insertion point the tracked pointer had moved, the
\* other pointer moved to a place that denotes another insertion point: the
\* drag state still holds the insertion point of the tracked pointer
C38_Witness ==
    /\ lastOp.op = "onMove"
    /\ Dragging
    /\ lastOp.arg[1] # drag.pointerId
    /\ drag.insertIndex # drag.startIndex
    /\ computeInsertIndex(lastOp.arg[2], drag.id).insertIndex # drag.insertIndex
(***************************************************************************)
(* Registry engine: clearActivityCells                                     *)
(***************************************************************************)
\* C39: clearActivityCells(id) sets every cell that holds id free and leaves
\* every other cell, the registry, the selected activity, the tool and the
\* other plans unchanged; the summary then reports 0 minutes for id, the
\* minutes of the other activities as before, and free minutes larger by the
\* minutes id had.
C39_ClearActivityCells ==
    [][ lastOp'.op = "clearActivityCells" =>
          LET id == lastOp'.arg[1]
              before == activePlan
              after == activePlan'
              summaryBefore == allocationSummary
              summaryAfter == allocationSummary'
          IN  /\ \A d \in Days, r \in Slots :
                     after.grid[d][r] =
                         IF before.grid[d][r] = id THEN NULL ELSE before.grid[d][r]
              /\ after = [before EXCEPT !.grid = after.grid]
              /\ Len(plans') = Len(plans)
              /\ \A i \in 1 .. Len(plans) : i # ActiveIndex => plans'[i] = plans[i]
              /\ summaryAfter.minutesById[id] = 0
              /\ \A other \in IdSet(before.activities) \ {id} :
                     summaryAfter.minutesById[other] = summaryBefore.minutesById[other]
              /\ summaryAfter.freeMinutes =
                     summaryBefore.freeMinutes + summaryBefore.minutesById[id] ]_vars

\* the cells of the selected activity a_work, which had minutes, were
\* cleared: it is still in the registry and selected, a_family keeps its
\* cells, and the summary reports 0 minutes for a_work
C39_Witness ==
    /\ lastOp.op = "clearActivityCells"
    /\ lastOp.arg[1] = "a_work"
    /\ lastOp.arg[2] > 0
    /\ activePlan.activities = DefaultActivities
    /\ activePlan.selectedActivityId = "a_work"
    /\ allocationSummary.minutesById["a_work"] = 0
    /\ allocationSummary.minutesById["a_family"] > 0
    /\ allocationSummary.freeMinutes >= lastOp.arg[2]

====
